---- MODULE Spec2Model ----
(***************************************************************************)
(* Bitcoin Proof-of-Value authentication of rib (src/src/routes.rs):       *)
(* the challenge map BTC_CHALLENGES behind its mutex, the handlers         *)
(* bitcoin_challenge and bitcoin_verify cut at their await points, the     *)
(* message verifier, the balance oracle and the token issuer.              *)
(*                                                                         *)
(* Idealisations, stated once:                                             *)
(*  - HASH160 is injective: the hash of a serialised key is modelled as    *)
(*    the pair <<key, compressed>>.                                        *)
(*  - ECDSA recovery: a signature made with key k over message m recovers  *)
(*    k under its own recovery id and message, and an unrelated key        *)
(*    ("junk", owner of no address) under any other message or id.         *)
(*  - The 32 random nonce bytes are a nondeterministic choice from a small *)
(*    set, so equal nonces do occur in the model.                          *)
(*  - Time is in whole seconds; the system clock may also step back.       *)
(*  - btc_test_insert_challenge (a helper of the test suite, not routed)   *)
(*    is not part of the model.                                            *)
(***************************************************************************)
EXTENDS Integers, Sequences, FiniteSets, TLC

\* ------------------------------------------------------------------ bounds
NumReq == 2
MaxChallenges == 2
NumCallers == 2     \* threads calling InMemoryRateLimiter::check
MaxChecks == 3      \* calls of check in one behaviour
MaxTime == 2        \* the monotonic clock runs from 0 to MaxTime
MaxRefresh == 3     \* calls of refresh_token on one token
MaxPosts == 1       \* threads, and replies, created in one behaviour

\* --------------------------------------------------------- program constants
BTC_CHALLENGE_TTL_SECS == 300
BTC_MIN_BALANCE_SATS == 1000000

\* -------------------------------------------------------------- addresses
\* The address strings requests carry. Each stands for one string of the
\* given shape; AddrLen is its length in bytes, Trim what str::trim returns.
A_P2PKH == "1K1"          \* mainnet P2PKH of HASH160(compressed K1)
A_P2WPKH == "bc1qK1"      \* mainnet P2WPKH v0 of HASH160(compressed K1)
A_P2SH == "3Script"       \* mainnet script hash
A_P2TR == "bc1pTaproot"   \* mainnet witness v1, 32-byte program
A_TEST == "tb1qK1"        \* testnet P2WPKH v0 of HASH160(compressed K1)
A_P2PKH_U == "1K1u"       \* mainnet P2PKH of HASH160(uncompressed K1)
A_P2PKH_TEST == "mK1"     \* testnet P2PKH of HASH160(compressed K1)
A_PADDED == " 1K1 "       \* A_P2PKH with surrounding whitespace
A_EMPTY == ""
A_BLANK == "  "           \* whitespace only
A_SHORT == "1Short"       \* fewer than 26 characters
A_LONG == "1Long"         \* more than 100 characters
A_JUNK == "notAnAddress"  \* 26..100 characters, no valid encoding

Addresses ==
    {A_P2PKH, A_P2WPKH, A_P2SH, A_P2TR, A_TEST, A_PADDED, A_EMPTY, A_BLANK,
     A_SHORT, A_LONG, A_JUNK, A_P2PKH_U, A_P2PKH_TEST}

Trim(a) ==
    CASE a = A_PADDED -> A_P2PKH
      [] a = A_BLANK -> A_EMPTY
      [] OTHER -> a

AddrLen(a) ==
    CASE a = A_P2PKH -> 34
      [] a = A_P2WPKH -> 42
      [] a = A_P2SH -> 34
      [] a = A_P2TR -> 62
      [] a = A_TEST -> 42
      [] a = A_P2PKH_U -> 34
      [] a = A_P2PKH_TEST -> 34
      [] a = A_PADDED -> 36
      [] a = A_EMPTY -> 0
      [] a = A_BLANK -> 2
      [] a = A_SHORT -> 6
      [] a = A_LONG -> 101
      [] a = A_JUNK -> 30

Keys == {"K1", "K2"}

\* HASH160 of a public key in the serialisation chosen by `compressed`.
Hash160(key, compressed) == <<key, compressed>>

\* bitcoin::Address::from_str: the empty set for a string that is no address,
\* else the parsed payload and network.
AddressFromStr(a) ==
    CASE a = A_P2PKH ->
           {[payload |-> "PubkeyHash", version |-> 0, proglen |-> 20,
             hash |-> Hash160("K1", TRUE), network |-> "Bitcoin"]}
      [] a = A_P2WPKH ->
           {[payload |-> "WitnessProgram", version |-> 0, proglen |-> 20,
             hash |-> Hash160("K1", TRUE), network |-> "Bitcoin"]}
      [] a = A_P2SH ->
           {[payload |-> "ScriptHash", version |-> 0, proglen |-> 20,
             hash |-> Hash160("script", TRUE), network |-> "Bitcoin"]}
      [] a = A_P2TR ->
           {[payload |-> "WitnessProgram", version |-> 1, proglen |-> 32,
             hash |-> Hash160("K1", TRUE), network |-> "Bitcoin"]}
      [] a = A_TEST ->
           {[payload |-> "WitnessProgram", version |-> 0, proglen |-> 20,
             hash |-> Hash160("K1", TRUE), network |-> "Testnet"]}
      [] a = A_P2PKH_U ->
           {[payload |-> "PubkeyHash", version |-> 0, proglen |-> 20,
             hash |-> Hash160("K1", FALSE), network |-> "Bitcoin"]}
      [] a = A_P2PKH_TEST ->
           {[payload |-> "PubkeyHash", version |-> 0, proglen |-> 20,
             hash |-> Hash160("K1", TRUE), network |-> "Testnet"]}
      [] OTHER -> {}

\* The encodings the subsystem supports: mainnet P2PKH and P2WPKH v0.
Supported(a) ==
    \E p \in AddressFromStr(a) :
        /\ p.network = "Bitcoin"
        /\ \/ p.payload = "PubkeyHash"
           \/ p.payload = "WitnessProgram" /\ p.version = 0 /\ p.proglen = 20

\* ------------------------------------------------------------- challenges
\* The nonces drawn: two, so that two texts of one address can differ or agree.
Nonces == {1, 2}

\* Mutant of ChallengeText: the text carries the nonce only.
ChallengeTextNonceOnly(address, nonce) == [address |-> A_EMPTY, nonce |-> nonce]

\* format!("Prove you own Bitcoin address {} (nonce {})", address, nonce)
ChallengeText(address, nonce) == [address |-> address, nonce |-> nonce]

Texts == {ChallengeText(a, n) : a \in {A_P2PKH, A_P2WPKH}, n \in Nonces}

\* ------------------------------------------------------------------ clock
\* The clock readings: ages of 0, 1, TTL and TTL + 1 seconds occur.
Instants == {0, BTC_CHALLENGE_TTL_SECS, BTC_CHALLENGE_TTL_SECS + 1}

\* Mutant of Elapsed: the distance between the two instants, either way.
ElapsedEitherWay(issued, clock) ==
    IF clock >= issued THEN clock - issued ELSE issued - clock

\* SystemTime::elapsed().unwrap_or_default(): zero when the clock reads
\* earlier than the instant.
Elapsed(issued, clock) == IF clock >= issued THEN clock - issued ELSE 0

\* -------------------------------------------------------------- signatures
\* A submitted signature string, by what decoding and recovery make of it:
\*   b64    the string is valid standard base64
\*   len    number of decoded bytes
\*   header first decoded byte
\*   rsok   the 64 bytes after it are valid (r, s) and recovery finds a point
\*   key, msg, recid   the key that made it, the message it was made over and
\*          the recovery id under which that key is recovered
Sign(key, compressed, msg) ==
    [b64 |-> TRUE, len |-> 65, header |-> 27 + (IF compressed THEN 4 ELSE 0),
     rsok |-> TRUE, key |-> key, msg |-> msg, recid |-> 0]

\* "dummy": not decodable at all.
DummySig ==
    [b64 |-> FALSE, len |-> 0, header |-> 0, rsok |-> FALSE, key |-> "junk",
     msg |-> ChallengeText(A_EMPTY, 0), recid |-> 0]

\* Well-formed signatures: by K1 (the key of A_P2PKH and A_P2WPKH) over each
\* challenge text, and by a key that owns neither over one of them.
Signatures ==
    {DummySig} \cup {Sign("K1", TRUE, t) : t \in Texts}
               \cup {Sign("K2", TRUE, ChallengeText(A_P2WPKH, 1))}

\* secp.recover_ecdsa over the double-SHA256 of the framed message: the set
\* holding the recovered key, empty when recovery fails.
RecoverEcdsa(sig, message, rec_id) ==
    IF ~sig.rsok THEN {}
    ELSE IF message = sig.msg /\ rec_id = sig.recid THEN {sig.key}
    ELSE {"junk"}

\* Mutant of verify_bitcoin_message: the header byte has no upper bound.
verify_bitcoin_message_any_header(address, message, sig) ==
    IF ~sig.b64 THEN "base64 decode"
    ELSE IF sig.len # 65 THEN "unexpected sig length (want 65)"
    ELSE IF sig.header < 27 THEN "invalid header byte"
    ELSE
      LET rec_id == (sig.header - 27) % 4
          is_compressed == ((sig.header - 27) \div 4) % 2 = 1
          recovered == RecoverEcdsa(sig, message, rec_id)
          parsed == AddressFromStr(address)
      IN  IF recovered = {} THEN "recovery failed"
          ELSE IF parsed = {} THEN "address parse"
          ELSE
            LET pubkey == CHOOSE k \in recovered : TRUE
                addr == CHOOSE p \in parsed : TRUE
                matched ==
                  CASE addr.payload = "PubkeyHash" ->
                         IF Hash160(pubkey, is_compressed) # addr.hash
                         THEN "address mismatch" ELSE "ok"
                    [] addr.payload = "WitnessProgram" ->
                         IF addr.version # 0 \/ addr.proglen # 20
                         THEN "unsupported witness program for signing"
                         ELSE IF ~is_compressed
                         THEN "segwit signature must use compressed key"
                         ELSE IF addr.hash # Hash160(pubkey, TRUE)
                         THEN "address mismatch" ELSE "ok"
                    [] OTHER -> "unsupported address type for signing"
            IN  IF matched # "ok" THEN matched
                ELSE IF addr.network # "Bitcoin" THEN "wrong network"
                ELSE "ok"

\* Mutant of verify_bitcoin_message: a P2PKH address is always compared
\* with the hash of the compressed key.
verify_bitcoin_message_compressed_only(address, message, sig) ==
    IF ~sig.b64 THEN "base64 decode"
    ELSE IF sig.len # 65 THEN "unexpected sig length (want 65)"
    ELSE IF sig.header < 27 \/ sig.header > 34 THEN "invalid header byte"
    ELSE
      LET rec_id == (sig.header - 27) % 4
          is_compressed == ((sig.header - 27) \div 4) % 2 = 1
          recovered == RecoverEcdsa(sig, message, rec_id)
          parsed == AddressFromStr(address)
      IN  IF recovered = {} THEN "recovery failed"
          ELSE IF parsed = {} THEN "address parse"
          ELSE
            LET pubkey == CHOOSE k \in recovered : TRUE
                addr == CHOOSE p \in parsed : TRUE
                matched ==
                  CASE addr.payload = "PubkeyHash" ->
                         IF Hash160(pubkey, TRUE) # addr.hash
                         THEN "address mismatch" ELSE "ok"
                    [] addr.payload = "WitnessProgram" ->
                         IF addr.version # 0 \/ addr.proglen # 20
                         THEN "unsupported witness program for signing"
                         ELSE IF ~is_compressed
                         THEN "segwit signature must use compressed key"
                         ELSE IF addr.hash # Hash160(pubkey, TRUE)
                         THEN "address mismatch" ELSE "ok"
                    [] OTHER -> "unsupported address type for signing"
            IN  IF matched # "ok" THEN matched
                ELSE IF addr.network # "Bitcoin" THEN "wrong network"
                ELSE "ok"

\* verify_bitcoin_message: "ok", or the reason of the failure (logged only).
verify_bitcoin_message(address, message, sig) ==
    IF ~sig.b64 THEN "base64 decode"
    ELSE IF sig.len # 65 THEN "unexpected sig length (want 65)"
    ELSE IF sig.header < 27 \/ sig.header > 34 THEN "invalid header byte"
    ELSE
      LET rec_id == (sig.header - 27) % 4
          is_compressed == ((sig.header - 27) \div 4) % 2 = 1
          recovered == RecoverEcdsa(sig, message, rec_id)
          parsed == AddressFromStr(address)
      IN  IF recovered = {} THEN "recovery failed"
          ELSE IF parsed = {} THEN "address parse"
          ELSE
            LET pubkey == CHOOSE k \in recovered : TRUE
                addr == CHOOSE p \in parsed : TRUE
                matched ==
                  CASE addr.payload = "PubkeyHash" ->
                         IF Hash160(pubkey, is_compressed) # addr.hash
                         THEN "address mismatch" ELSE "ok"
                    [] addr.payload = "WitnessProgram" ->
                         IF addr.version # 0 \/ addr.proglen # 20
                         THEN "unsupported witness program for signing"
                         ELSE IF ~is_compressed
                         THEN "segwit signature must use compressed key"
                         ELSE IF addr.hash # Hash160(pubkey, TRUE)
                         THEN "address mismatch" ELSE "ok"
                    [] OTHER -> "unsupported address type for signing"
            IN  IF matched # "ok" THEN matched
                ELSE IF addr.network # "Bitcoin" THEN "wrong network"
                ELSE "ok"

\* ---------------------------------------------------------- configuration
\* The process environment the handlers read: each variable is unset ({})
\* or set to one string ({v}).
ParseU64(v) ==
    CASE v = "4999" -> {4999}
      [] v = "5000" -> {5000}
      [] v = "999999" -> {999999}
      [] v = "1000000" -> {1000000}
      [] OTHER -> {}

\* std::env::var(..).ok().map(|v| v=="1"||v=="true").unwrap_or(false)
EnvFlag(var) == \E v \in var : v = "1" \/ v = "true"

\* .ok().and_then(|v| v.parse::<u64>().ok()).unwrap_or(BTC_MIN_BALANCE_SATS)
MinBalance(var) ==
    LET parsed == UNION {ParseU64(v) : v \in var}
    IN  IF parsed = {} THEN BTC_MIN_BALANCE_SATS
        ELSE CHOOSE n \in parsed : TRUE

\* --------------------------------------------------------- balance oracle
\* What the two balance services answer to one call.
\*   primary:  send (the request got a response), success (2xx), json (the
\*             body is JSON), array (it is an array), values (per entry, the
\*             unsigned "value" field: {} when absent or of another type)
\*   fallback: send, success, parses (the body holds final_balance: u64)
NetErr ==
    [send |-> FALSE, success |-> FALSE, json |-> FALSE, array |-> FALSE,
     values |-> <<>>, parses |-> FALSE, final_balance |-> 0]
HttpFail == [NetErr EXCEPT !.send = TRUE]
\* A success status with a body that is not JSON, and with a JSON object.
BadBody == [NetErr EXCEPT !.send = TRUE, !.success = TRUE]
JsonObject == [NetErr EXCEPT !.send = TRUE, !.success = TRUE, !.json = TRUE]
Utxos(vals) ==
    [NetErr EXCEPT !.send = TRUE, !.success = TRUE, !.json = TRUE,
                   !.array = TRUE, !.values = vals]
FinalBalance(n) ==
    [NetErr EXCEPT !.send = TRUE, !.success = TRUE, !.json = TRUE,
                   !.parses = TRUE, !.final_balance = n]

\* Mutant of SumValues: the total is assigned, not added to.
SumValuesLast(vals) ==
    IF vals = <<>> \/ vals[Len(vals)] = {} THEN 0
    ELSE CHOOSE v \in vals[Len(vals)] : TRUE

\* total: u64 is modelled 30 bits wide (the checker's integers have 32):
\* U64Modulus stands for 2^64 and the values of the outputs are below it.
U64Modulus == 1073741824

\* u.get("value").and_then(|v| v.as_u64()), 0 standing for None
AsU64(value) == IF value = {} THEN 0 ELSE CHOOSE v \in value : TRUE

\* total += v for every output, as the addition wraps.
RECURSIVE SumValues(_)
SumValues(vals) ==
    IF vals = <<>> THEN 0
    ELSE (AsU64(Head(vals)) + SumValues(Tail(vals))) % U64Modulus

\* Whether some total += v, starting from `total`, overflows.
RECURSIVE AddOverflows(_, _)
AddOverflows(total, vals) ==
    /\ vals # <<>>
    /\ \/ total + AsU64(Head(vals)) >= U64Modulus
       \/ AddOverflows((total + AsU64(Head(vals))) % U64Modulus, Tail(vals))

\* The Result of one fetch: ok/sats, the services called (primary, fallback)
\* and the calls in their order, and whether an addition overflowed: sats is
\* then the wrapped total, which a build without overflow checks returns.
FetchResult(ok, sats, calls) ==
    [ok |-> ok, sats |-> sats, calls |-> calls, overflow |-> FALSE,
     panicked |-> FALSE,
     primary |-> \E i \in DOMAIN calls : calls[i] = "primary",
     fallback |-> \E i \in DOMAIN calls : calls[i] = "fallback"]

\* The total of a JSON body of the primary service: 0 when it is not an
\* array, else every as_u64 value added up.
PrimaryTotal(primaryResp) ==
    [FetchResult(TRUE,
                 IF primaryResp.array THEN SumValues(primaryResp.values) ELSE 0,
                 <<"primary">>)
       EXCEPT !.overflow = primaryResp.array /\ AddOverflows(0, primaryResp.values)]

\* The build decides what an overflowing addition does: with overflow checks
\* (the dev and test profiles) it panics, without them (release) it wraps.
OverflowOutcome(res, overflow_checks) ==
    IF res.overflow /\ overflow_checks
    THEN [res EXCEPT !.ok = FALSE, !.sats = 0, !.panicked = TRUE]
    ELSE res

\* Mutant of fetch_btc_balance_sats: a primary body that is not JSON sends
\* the fetch on to the fallback.
fetch_btc_balance_sats_body_fallback(override, primaryResp, fallbackResp) ==
    LET ov == UNION {ParseU64(v) : v \in override}
        good == fallbackResp.send /\ fallbackResp.success /\ fallbackResp.parses
    IN  IF ov # {} THEN FetchResult(TRUE, CHOOSE n \in ov : TRUE, <<>>)
        ELSE IF primaryResp.send /\ primaryResp.success /\ primaryResp.json
        THEN PrimaryTotal(primaryResp)
        ELSE FetchResult(good, IF good THEN fallbackResp.final_balance ELSE 0,
                         <<"primary", "fallback">>)

\* Mutant of fetch_btc_balance_sats: a failed primary call is tried again
\* before the fallback.
fetch_btc_balance_sats_retry(override, primaryResp, fallbackResp) ==
    LET ov == UNION {ParseU64(v) : v \in override}
        good == fallbackResp.send /\ fallbackResp.success /\ fallbackResp.parses
    IN  IF ov # {} THEN FetchResult(TRUE, CHOOSE n \in ov : TRUE, <<>>)
        ELSE IF primaryResp.send /\ primaryResp.success
        THEN IF ~primaryResp.json THEN FetchResult(FALSE, 0, <<"primary">>)
             ELSE PrimaryTotal(primaryResp)
        ELSE FetchResult(good, IF good THEN fallbackResp.final_balance ELSE 0,
                         <<"primary", "primary", "fallback">>)

\* Mutant of fetch_btc_balance_sats: the override is looked at only after
\* the primary service was asked.
fetch_btc_balance_sats_override_late(override, primaryResp, fallbackResp) ==
    LET ov == UNION {ParseU64(v) : v \in override}
        good == fallbackResp.send /\ fallbackResp.success /\ fallbackResp.parses
    IN  IF ov # {} THEN FetchResult(TRUE, CHOOSE n \in ov : TRUE, <<"primary">>)
        ELSE IF primaryResp.send /\ primaryResp.success
        THEN IF ~primaryResp.json THEN FetchResult(FALSE, 0, <<"primary">>)
             ELSE PrimaryTotal(primaryResp)
        ELSE FetchResult(good, IF good THEN fallbackResp.final_balance ELSE 0,
                         <<"primary", "fallback">>)

\* fetch_btc_balance_sats, given what each service answers if it is called.
fetch_btc_balance_sats(override, primaryResp, fallbackResp) ==
    LET ov == UNION {ParseU64(v) : v \in override}
        fb == IF fallbackResp.send /\ fallbackResp.success /\ fallbackResp.parses
              THEN FetchResult(TRUE, fallbackResp.final_balance,
                               <<"primary", "fallback">>)
              ELSE FetchResult(FALSE, 0, <<"primary", "fallback">>)
    IN  IF ov # {}
        THEN FetchResult(TRUE, CHOOSE n \in ov : TRUE, <<>>)
        ELSE IF primaryResp.send /\ primaryResp.success
        THEN IF ~primaryResp.json
             THEN FetchResult(FALSE, 0, <<"primary">>)
             ELSE PrimaryTotal(primaryResp)
        ELSE fb

\* ------------------------------------------------------------------ tokens
\* Mutant of create_jwt: the username is appended whatever the user_id.
create_jwt_always_appends(user_id, username, roles) ==
    [sub |-> user_id \o username, roles |-> roles]

\* A string is the sequence of its colon-separated parts: user_id contains
\* a colon when it has more than one part.
create_jwt(user_id, username, roles) ==
    [sub |-> IF Len(user_id) > 1 THEN user_id ELSE user_id \o username,
     roles |-> roles]

\* Mutant of create_bitcoin_jwt: the provider prefix is left out.
create_bitcoin_jwt_unprefixed(address, roles) ==
    create_jwt(<<address>>, <<address>>, roles)

create_bitcoin_jwt(address, roles) ==
    create_jwt(<<"btc", address>>, <<address>>, roles)

\* discord_callback: the id (a snowflake: decimal digits) and the username
\* Discord answers for the user, and the role looked up for the subject.
DiscordIds == {"42", "1234567890"}
DiscordUsernames ==
    {<<"satoshi">>, <<"btc">>, <<A_P2PKH>>, <<"btc", A_P2PKH>>}
Roles == {"User", "Moderator", "Admin"}
discord_callback(id, username, role) == create_jwt(<<id>>, username, {role})

\* refresh_token: create_jwt(&auth.0.sub, &auth.0.sub, auth.0.roles)
refresh_token(auth) == create_jwt(auth.sub, auth.sub, auth.roles)

\* --------------------------------------------------------------- responses
\* ApiError::error_response: the status and the "error" field of the body.
error_response(e) ==
    CASE e = "NotFound" -> [status |-> 404, error |-> "not found"]
      [] e = "Conflict" -> [status |-> 409, error |-> "conflict"]
      [] e = "Internal" -> [status |-> 500, error |-> "internal error"]
      [] e = "Forbidden" -> [status |-> 403, error |-> "forbidden"]
      [] e = "InsufficientFunds" -> [status |-> 403, error |-> "insufficient funds"]
      [] e = "BadRequest" -> [status |-> 400, error |-> "bad request"]

\* ------------------------------------------------------------------- state
VARIABLES
    BTC_CHALLENGES,  \* the map: address -> [text, issued], on its present keys
    lock,            \* the map's mutex: 0 when free, else the holding request
    now,             \* the system clock, in seconds
    env,             \* the process environment
    requests,        \* the request slots: each handler's locals and position
    stored,          \* per address, the number of challenges stored so far
    issuedTokens,    \* per address, the number of tokens returned so far
    superseded,      \* per address, the texts overwritten while pending
    fetched,         \* the last call of fetch_btc_balance_sats made on its own
    verified,        \* the last call of verify_bitcoin_message made on its own
    rate_limiter,    \* InMemoryRateLimiter: enabled, store (key -> deque)
    cfg,             \* the limit and the window the callers pass to check
    checks,          \* per caller of check: its position and locals
    history,         \* the calls of check that returned, in the order of return
    repo,            \* the database: boards, threads, replies, by id
    response,        \* the last request served by a board handler, answered
    session          \* a client's token: how it was issued, refreshed how often

\* The variables of the Bitcoin login apart from the clock, and those of the
\* rest of the program.
authVars ==
    <<BTC_CHALLENGES, lock, env, requests, stored, issuedTokens, superseded,
      fetched>>
repoVars == <<repo, response>>
others == <<verified, rate_limiter, cfg, checks, history, repoVars, session>>

vars ==
    <<BTC_CHALLENGES, lock, now, env, requests, stored, issuedTokens,
      superseded, fetched, others>>

Reqs == 1..NumReq

\* The environments of the three specifications: the bypass flags in every
\* combination; production and the full bypass; the balance settings with
\* the signature bypass on.
Unset ==
    [skip_sig |-> {}, skip_balance |-> {}, min_balance |-> {},
     balance_override |-> {}]
EnvConfigs ==
    [skip_sig : {{}, {"1"}},
     skip_balance : {{}, {"true"}},
     min_balance : {{}},
     balance_override : {{}}]
ConcEnvConfigs ==
    {Unset, [Unset EXCEPT !.skip_sig = {"1"}, !.skip_balance = {"1"}]}
BalanceEnvConfigs ==
    [skip_sig : {{"1"}},
     skip_balance : {{}, {"0"}, {"1"}},
     min_balance : {{}, {"5000"}, {"five"}},
     balance_override : {{}, {"4999"}, {"1000000"}, {"lots"}}]

\* The request bodies under Spec (one request at a time): challenge requests
\* as <<address, nonce drawn>>, verify requests as <<address, signature>>;
\* A_P2PKH is challenged with either nonce and verified with every kind of
\* signature. Under SpecConc the requests are concurrent, on one address.
ReqAddresses == {A_P2PKH, A_P2WPKH, A_P2SH, A_PADDED, A_SHORT}
ChallengeRequests ==
    ({A_P2PKH} \X Nonces) \cup ((ReqAddresses \ {A_P2PKH}) \X {1})
VerifyRequests ==
    LET own == Sign("K1", TRUE, ChallengeText(A_P2PKH, 1))
        wit == Sign("K1", TRUE, ChallengeText(A_P2WPKH, 1))
        other == Sign("K2", TRUE, ChallengeText(A_P2WPKH, 1))
    IN  ({A_P2PKH} \X
           {DummySig, own, Sign("K1", TRUE, ChallengeText(A_P2PKH, 2)), wit,
            other})
          \cup ({A_P2WPKH} \X {DummySig, own, wit, other})
          \cup ({A_P2SH} \X {DummySig, own})
          \cup ({A_PADDED, A_SHORT} \X {own})
ConcAddresses == {A_P2PKH}
ConcSignatures == {DummySig, Sign("K1", TRUE, ChallengeText(A_P2PKH, 1))}

\* A slot no request occupies. A local is reset to its value here once the
\* handler no longer reads it.
Idle ==
    [kind |-> "none", pc |-> "idle", payload |-> A_EMPTY, address |-> A_EMPTY,
     signature |-> DummySig, nonce |-> 0, taken |-> {},
     took |-> FALSE, expired |-> FALSE, sigres |-> "", rejected |-> {},
     balance |-> {},
     status |-> 0, error |-> "", challenge |-> {}, token |-> {}]

Free(r) == requests[r].pc \in {"idle", "done"}

\* Requests enter the lowest free slot (the slots are interchangeable).
NextSlot(r) == Free(r) /\ \A q \in Reqs : q < r => ~Free(q)

RECURSIVE SumOver(_, _)
SumOver(f, S) ==
    IF S = {} THEN 0
    ELSE LET x == CHOOSE y \in S : TRUE IN f[x] + SumOver(f, S \ {x})

\* Challenges stored or about to be: the model stops accepting valid
\* challenge requests at MaxChallenges.
ChallengeBudget ==
    SumOver(stored, Addresses)
      + Cardinality({q \in Reqs : /\ requests[q].kind = "challenge"
                                  /\ requests[q].pc = "locked"})

\* Mutant of MapInsert: an existing entry is kept (entry().or_insert).
MapInsertIfAbsent(map, k, v) ==
    [x \in DOMAIN map \cup {k} |-> IF x \in DOMAIN map THEN map[x] ELSE v]

\* Mutant of MapInsert: the text of an existing entry is replaced, its issue
\* time kept.
MapInsertKeepTime(map, k, v) ==
    [x \in DOMAIN map \cup {k} |->
       IF x # k THEN map[x]
       ELSE IF k \in DOMAIN map THEN [v EXCEPT !.issued = map[k].issued]
       ELSE v]

\* Mutant of MapRemove: a key that is found empties the map.
MapRemoveAll(map, k) == IF k \in DOMAIN map THEN <<>> ELSE map

\* Mutant of MapRemove: the entry is removed from a copy of the map.
MapRemoveFromCopy(map, k) == map

\* HashMap::insert and HashMap::remove
MapInsert(map, k, v) ==
    [x \in DOMAIN map \cup {k} |-> IF x = k THEN v ELSE map[x]]
MapRemove(map, k) == [x \in DOMAIN map \ {k} |-> map[x]]
MapGet(map, k) == IF k \in DOMAIN map THEN {map[k]} ELSE {}

\* The handler returns: its locals are dropped, the response stays.
Return(req, status, error) ==
    [req EXCEPT !.pc = "done", !.status = status, !.error = error,
                !.signature = DummySig, !.nonce = 0, !.taken = {}]

\* Mutant of Fail: a failed signature is answered with the verifier's reason.
FailWithReason(req, e) ==
    Return(req, error_response(e).status,
           IF req.pc = "sig"
           THEN verify_bitcoin_message(req.address,
                                       (CHOOSE x \in req.taken : TRUE).text,
                                       req.signature)
           ELSE error_response(e).error)

Fail(req, e) == Return(req, error_response(e).status, error_response(e).error)

\* The process right after start, in one of the environments `configs`: the
\* Bitcoin login, and with it the rest.
InitAuthIn(configs) ==
    /\ BTC_CHALLENGES = <<>>
    /\ lock = 0
    /\ now \in Instants
    /\ env \in configs
    /\ requests = [r \in Reqs |-> Idle]
    /\ stored = [a \in Addresses |-> 0]
    /\ issuedTokens = [a \in Addresses |-> 0]
    /\ superseded = [a \in Addresses |-> {}]
    /\ fetched = {}

\* InMemoryRateLimiter::new(enabled) with the limit and the window given,
\* no call of check under way.
Callers == 1..NumCallers
NoCheck == [pc |-> "idle", key |-> "", now |-> 0]
InitLimiterIn(enabled, limits, windows) ==
    /\ rate_limiter \in [enabled : enabled, store : {<<>>}]
    /\ cfg \in [limit : limits, window : windows]
    /\ checks = [t \in Callers |-> NoCheck]
    /\ history = <<>>

\* RateLimitConfig::from_env with nothing set: thread_limit, thread_window.
InitLimiter == InitLimiterIn({TRUE}, {1}, {300})

\* The database with a board, a thread on it and a reply in that
\* thread, none deleted (deleted_at NULL: the empty set), and no request
\* served by the board handlers yet.
BoardIds == {1}
ThreadBoard == (1 :> 1)
ReplyThread == (1 :> 1)
NULL == {}
InitRepo ==
    /\ repo = [boards |-> [b \in BoardIds |-> [deleted_at |-> NULL]],
               threads |-> [t \in DOMAIN ThreadBoard |->
                              [board_id |-> ThreadBoard[t], deleted_at |-> NULL]],
               replies |-> [r \in DOMAIN ReplyThread |->
                              [thread_id |-> ReplyThread[r], deleted_at |-> NULL]]]
    /\ response = {}

InitIn(configs) ==
    /\ InitAuthIn(configs)
    /\ verified = {}
    /\ InitLimiter
    /\ InitRepo
    /\ session = {}

Init == InitIn(EnvConfigs)

\* ------------------------------------------------------- bitcoin_challenge
\* The address checks of bitcoin_challenge on the trimmed address.
ChallengeAddressOk(address) ==
    /\ address # A_EMPTY
    /\ ~(AddrLen(address) < 26 \/ AddrLen(address) > 100)
    /\ AddressFromStr(address) # {}

\* Mutant of bitcoin_challenge_begin: the challenge is stored before the
\* address is looked at.
bitcoin_challenge_begin_store_first(r, a, n) ==
    /\ NextSlot(r)
    /\ lock = 0
    /\ LET address == Trim(a)
           req == [Idle EXCEPT !.kind = "challenge", !.payload = a,
                               !.address = address]
       IN  /\ BTC_CHALLENGES' =
                MapInsert(BTC_CHALLENGES, address,
                          [text |-> ChallengeText(address, n), issued |-> now])
           /\ requests' = [requests EXCEPT ![r] =
                IF ChallengeAddressOk(address)
                THEN [Return(req, 200, "") EXCEPT
                        !.challenge = {ChallengeText(address, n)}]
                ELSE Fail(req, "BadRequest")]
    /\ UNCHANGED <<lock, now, env, stored, issuedTokens, superseded, fetched, others>>

\* From the request to the mutex: trim, validate, draw the nonce, lock.
bitcoin_challenge_begin(r, a, n) ==
    /\ NextSlot(r)
    /\ LET address == Trim(a)
           req == [Idle EXCEPT !.kind = "challenge", !.payload = a,
                               !.address = address]
       IN  IF ChallengeAddressOk(address)
           THEN /\ ChallengeBudget < MaxChallenges
                /\ lock = 0
                /\ lock' = r
                /\ requests' = [requests EXCEPT ![r] =
                                  [req EXCEPT !.pc = "locked", !.nonce = n]]
           ELSE /\ requests' = [requests EXCEPT ![r] = Fail(req, "BadRequest")]
                /\ UNCHANGED lock
    /\ UNCHANGED <<BTC_CHALLENGES, now, env, stored, issuedTokens, superseded,
                 fetched, others>>

\* map.insert(address, (challenge, now)), the guard dropped, 200 returned.
bitcoin_challenge_insert(r) ==
    /\ requests[r].kind = "challenge"
    /\ requests[r].pc = "locked"
    /\ lock = r
    /\ LET req == requests[r]
           challenge == ChallengeText(req.address, req.nonce)
       IN  /\ BTC_CHALLENGES' =
                MapInsert(BTC_CHALLENGES, req.address,
                          [text |-> challenge, issued |-> now])
           /\ stored' = [stored EXCEPT ![req.address] = @ + 1]
           /\ superseded' = [superseded EXCEPT ![req.address] =
                @ \cup {e.text : e \in MapGet(BTC_CHALLENGES, req.address)}]
           /\ requests' = [requests EXCEPT ![r] =
                [Return(req, 200, "") EXCEPT !.challenge = {challenge}]]
    /\ lock' = 0
    /\ UNCHANGED <<now, env, issuedTokens, fetched, others>>

\* ---------------------------------------------------------- bitcoin_verify
\* Mutant of Expired: an age equal to the TTL counts as expired.
ExpiredAtTTL(issued, clock) ==
    Elapsed(issued, clock) >= BTC_CHALLENGE_TTL_SECS

\* Mutant of Expired: the age in seconds against the TTL in milliseconds.
ExpiredMillis(issued, clock) ==
    Elapsed(issued, clock) > BTC_CHALLENGE_TTL_SECS * 1000

\* issued.elapsed().unwrap_or_default() > Duration::from_secs(TTL)
Expired(issued, clock) == Elapsed(issued, clock) > BTC_CHALLENGE_TTL_SECS

\* Mutants of SignatureCheck: the message verified is the one the signature
\* names, not the stored challenge; the bypass flag is not honoured.
SignatureCheckOwnMessage(test_skip_sig, address, challenge, signature) ==
    IF test_skip_sig THEN "skipped"
    ELSE verify_bitcoin_message(address, signature.msg, signature)
SignatureCheckNoBypass(test_skip_sig, address, challenge, signature) ==
    verify_bitcoin_message(address, challenge, signature)

\* Mutant of SignatureCheck: a failure is logged and the request goes on.
SignatureCheckLogOnly(test_skip_sig, address, challenge, signature) ==
    IF test_skip_sig THEN "skipped" ELSE "ok"

\* The signature step: "skipped" under the bypass, else the verifier's result.
SignatureCheck(test_skip_sig, address, challenge, signature) ==
    IF test_skip_sig THEN "skipped"
    ELSE verify_bitcoin_message(address, challenge, signature)

\* Mutant of BalanceCheck: an oracle error is taken for a low balance.
BalanceCheckConflated(result, min_balance) ==
    IF result.ok /\ result.sats >= min_balance THEN "pass"
    ELSE "InsufficientFunds"

\* Mutant of BalanceCheck: the comparison is strict.
BalanceCheckStrict(result, min_balance) ==
    IF result.ok /\ result.sats > min_balance THEN "pass"
    ELSE IF result.ok THEN "InsufficientFunds"
    ELSE "Internal"

\* The match on the fetched balance: the error returned, or "pass".
BalanceCheck(result, min_balance) ==
    IF result.ok /\ result.sats >= min_balance THEN "pass"
    ELSE IF result.ok THEN "InsufficientFunds"
    ELSE "Internal"

\* What the two balance services may answer: under Spec and SpecConc, and
\* under SpecBalance.
PrimaryResponses ==
    {NetErr, Utxos(<<{999999}>>), Utxos(<<{500000}, {500000}>>)}
FallbackResponses == {NetErr, FinalBalance(1000000)}
BalancePrimaryResponses ==
    {NetErr, HttpFail, BadBody, JsonObject, Utxos(<<{999999}>>),
     Utxos(<<{500000}, {500000}>>), Utxos(<<{4999}>>),
     Utxos(<<{2500}, {}, {2500}>>)}
BalanceFallbackResponses ==
    {NetErr, HttpFail, FinalBalance(999999), FinalBalance(1000000),
     FinalBalance(4999), FinalBalance(5000)}

\* Mutant of bitcoin_verify_begin: the address is trimmed as bitcoin_challenge
\* trims it.
bitcoin_verify_begin_trimmed(r, a, sig) ==
    /\ NextSlot(r)
    /\ lock = 0
    /\ lock' = r
    /\ requests' = [requests EXCEPT ![r] =
         [Idle EXCEPT !.kind = "verify", !.pc = "locked", !.payload = a,
                      !.address = Trim(a), !.signature = sig]]
    /\ UNCHANGED <<BTC_CHALLENGES, now, env, stored, issuedTokens, superseded,
                 fetched, others>>

\* The request arrives and takes the mutex: BTC_CHALLENGES.lock().await
bitcoin_verify_begin(r, a, sig) ==
    /\ NextSlot(r)
    /\ lock = 0
    /\ lock' = r
    /\ requests' = [requests EXCEPT ![r] =
         [Idle EXCEPT !.kind = "verify", !.pc = "locked", !.payload = a,
                      !.address = a, !.signature = sig]]
    /\ UNCHANGED <<BTC_CHALLENGES, now, env, stored, issuedTokens, superseded,
                 fetched, others>>

\* Mutant of bitcoin_verify_remove: the entry is read (get), not removed.
bitcoin_verify_peek(r) ==
    /\ requests[r].kind = "verify"
    /\ requests[r].pc = "locked"
    /\ lock = r
    /\ LET req == requests[r]
           entry == MapGet(BTC_CHALLENGES, req.address)
       IN  requests' = [requests EXCEPT ![r] =
             IF entry = {} THEN Fail(req, "BadRequest")
             ELSE [req EXCEPT !.pc = "ttl", !.taken = entry, !.took = TRUE]]
    /\ lock' = 0
    /\ UNCHANGED <<BTC_CHALLENGES, now, env, stored, issuedTokens, superseded,
                 fetched, others>>

\* Mutant of bitcoin_verify_remove: the guard lives on after the removal.
bitcoin_verify_remove_guarded(r) ==
    /\ requests[r].kind = "verify"
    /\ requests[r].pc = "locked"
    /\ lock = r
    /\ LET req == requests[r]
           entry == MapGet(BTC_CHALLENGES, req.address)
       IN  /\ BTC_CHALLENGES' = MapRemove(BTC_CHALLENGES, req.address)
           /\ requests' = [requests EXCEPT ![r] =
                IF entry = {} THEN Fail(req, "BadRequest")
                ELSE [req EXCEPT !.pc = "ttl", !.taken = entry, !.took = TRUE]]
    /\ UNCHANGED <<lock, now, env, stored, issuedTokens, superseded, fetched, others>>

\* map.remove(&payload.address).ok_or(BadRequest)?, the guard dropped.
bitcoin_verify_remove(r) ==
    /\ requests[r].kind = "verify"
    /\ requests[r].pc = "locked"
    /\ lock = r
    /\ LET req == requests[r]
           entry == MapGet(BTC_CHALLENGES, req.address)
       IN  /\ BTC_CHALLENGES' = MapRemove(BTC_CHALLENGES, req.address)
           /\ requests' = [requests EXCEPT ![r] =
                IF entry = {} THEN Fail(req, "BadRequest")
                ELSE [req EXCEPT !.pc = "ttl", !.taken = entry, !.took = TRUE]]
    /\ lock' = 0
    /\ UNCHANGED <<now, env, stored, issuedTokens, superseded, fetched, others>>

\* Mutant of bitcoin_verify_ttl: the issue time is read again from the map
\* when the address has an entry by then.
bitcoin_verify_ttl_reread(r) ==
    /\ requests[r].kind = "verify"
    /\ requests[r].pc = "ttl"
    /\ LET req == requests[r]
           issued == IF req.address \in DOMAIN BTC_CHALLENGES
                     THEN BTC_CHALLENGES[req.address].issued
                     ELSE (CHOOSE e \in req.taken : TRUE).issued
       IN  requests' = [requests EXCEPT ![r] =
             IF Expired(issued, now)
             THEN [Return(req, 410, "") EXCEPT !.expired = TRUE]
             ELSE [req EXCEPT !.pc = "sig"]]
    /\ UNCHANGED <<BTC_CHALLENGES, lock, now, env, stored, issuedTokens, superseded,
                 fetched, others>>

\* The expiry test: 410 with an empty body, or on to the signature.
bitcoin_verify_ttl(r) ==
    /\ requests[r].kind = "verify"
    /\ requests[r].pc = "ttl"
    /\ LET req == requests[r]
           issued == (CHOOSE e \in req.taken : TRUE).issued
       IN  requests' = [requests EXCEPT ![r] =
             IF Expired(issued, now)
             THEN [Return(req, 410, "") EXCEPT !.expired = TRUE]
             ELSE [req EXCEPT !.pc = "sig"]]
    /\ UNCHANGED <<BTC_CHALLENGES, lock, now, env, stored, issuedTokens, superseded,
                 fetched, others>>

\* The environment is read, then the signature verified unless skipped.
bitcoin_verify_sig(r) ==
    /\ requests[r].kind = "verify"
    /\ requests[r].pc = "sig"
    /\ LET req == requests[r]
           challenge == (CHOOSE e \in req.taken : TRUE).text
           res == SignatureCheck(EnvFlag(env.skip_sig), req.address,
                                 challenge, req.signature)
       IN  requests' = [requests EXCEPT ![r] =
             IF res \in {"skipped", "ok"}
             THEN [req EXCEPT !.pc = "balance", !.sigres = res,
                              !.signature = DummySig, !.taken = {}]
             ELSE [Fail(req, "BadRequest") EXCEPT
                     !.sigres = res, !.rejected = {req.signature}]]
    /\ UNCHANGED <<BTC_CHALLENGES, lock, now, env, stored, issuedTokens, superseded,
                 fetched, others>>

\* The balance fetched and compared unless skipped.
\* p and f are what the primary and the fallback service answer if called.
bitcoin_verify_balance(r, p, f) ==
    /\ requests[r].kind = "verify"
    /\ requests[r].pc = "balance"
    /\ LET req == requests[r] IN
       IF EnvFlag(env.skip_balance)
       THEN requests' = [requests EXCEPT ![r].pc = "jwt"]
       ELSE LET fetch == fetch_btc_balance_sats(env.balance_override, p, f)
            IN  \E result \in {OverflowOutcome(fetch, oc) : oc \in BOOLEAN} :
                  LET check == BalanceCheck(result, MinBalance(env.min_balance))
                  IN  requests' = [requests EXCEPT ![r] =
                        IF result.panicked
                        THEN [Return(req, 0, "panicked") EXCEPT
                                !.balance = {result}]
                        ELSE IF check = "pass"
                        THEN [req EXCEPT !.pc = "jwt", !.balance = {result}]
                        ELSE [Fail(req, check) EXCEPT !.balance = {result}]]
    /\ UNCHANGED <<BTC_CHALLENGES, lock, now, env, stored, issuedTokens, superseded,
                 fetched, others>>

\* create_bitcoin_jwt(&payload.address, vec![Role::User]): the token in a
\* 200, or Internal when the encoder fails.
bitcoin_verify_jwt(r) ==
    /\ requests[r].kind = "verify"
    /\ requests[r].pc = "jwt"
    /\ LET req == requests[r] IN
       \E encoded \in BOOLEAN :
         IF encoded
         THEN /\ requests' = [requests EXCEPT ![r] =
                   [Return(req, 200, "") EXCEPT
                      !.token = {create_bitcoin_jwt(req.address, {"User"})}]]
              /\ issuedTokens' = [issuedTokens EXCEPT ![req.address] = @ + 1]
         ELSE /\ requests' = [requests EXCEPT ![r] = Fail(req, "Internal")]
              /\ UNCHANGED issuedTokens
    /\ UNCHANGED <<BTC_CHALLENGES, lock, now, env, stored, superseded, fetched, others>>

\* Mutant of bitcoin_verify_cancel: the entry the request holds is put back.
bitcoin_verify_cancel_rollback(r) ==
    /\ requests[r].kind = "verify"
    /\ requests[r].pc \in {"locked", "ttl", "sig", "balance", "jwt"}
    /\ LET req == requests[r] IN
       /\ requests' = [requests EXCEPT ![r] =
            [Return(req, 0, "") EXCEPT !.kind = "cancelled"]]
       /\ BTC_CHALLENGES' =
            IF req.taken = {} THEN BTC_CHALLENGES
            ELSE MapInsert(BTC_CHALLENGES, req.address,
                           CHOOSE e \in req.taken : TRUE)
    /\ lock' = IF lock = r THEN 0 ELSE lock
    /\ UNCHANGED <<now, env, stored, issuedTokens, superseded, fetched, others>>

\* The handler's future is dropped (the client went away) before one of its
\* steps: its locals are dropped, the guard with them if it is held, and no
\* response is sent. The code has no handler for this; nothing else runs.
bitcoin_verify_cancel(r) ==
    /\ requests[r].kind = "verify"
    /\ requests[r].pc \in {"locked", "ttl", "sig", "balance", "jwt"}
    /\ requests' = [requests EXCEPT ![r] =
         [Return(requests[r], 0, "") EXCEPT !.kind = "cancelled"]]
    /\ lock' = IF lock = r THEN 0 ELSE lock
    /\ UNCHANGED <<BTC_CHALLENGES, now, env, stored, issuedTokens, superseded,
                 fetched, others>>

\* ------------------------------------------------------------------- clock
\* Mutant of Tick: entries older than the TTL are swept as time passes.
TickSweeping ==
    /\ \E t \in Instants : t > now /\ now' = t
    /\ BTC_CHALLENGES' =
         [a \in {x \in DOMAIN BTC_CHALLENGES :
                   now' - BTC_CHALLENGES[x].issued <= BTC_CHALLENGE_TTL_SECS}
            |-> BTC_CHALLENGES[a]]
    /\ UNCHANGED <<lock, env, requests, stored, issuedTokens, superseded,
                   fetched, others>>

\* Time passes.
Tick ==
    /\ \E t \in Instants : t > now /\ now' = t
    /\ UNCHANGED <<BTC_CHALLENGES, lock, env, requests, stored, issuedTokens,
                   superseded, fetched, others>>

\* The system clock is set back.
ClockStepBack ==
    /\ \E t \in Instants : t < now /\ now' = t
    /\ UNCHANGED <<BTC_CHALLENGES, lock, env, requests, stored, issuedTokens,
                   superseded, fetched, others>>

\* The steps every request takes once it is in a slot, but for the balance.
Steps ==
    \/ \E r \in Reqs : bitcoin_challenge_insert(r)
    \/ \E r \in Reqs : bitcoin_verify_remove(r)
    \/ \E r \in Reqs : bitcoin_verify_ttl(r)
    \/ \E r \in Reqs : bitcoin_verify_sig(r)
    \/ \E r \in Reqs : bitcoin_verify_jwt(r)
    \/ Tick

\* One request at a time, over the wide addresses and signatures, the clock
\* running forward.
Next ==
    \/ \E c \in ChallengeRequests : bitcoin_challenge_begin(1, c[1], c[2])
    \/ \E v \in VerifyRequests : bitcoin_verify_begin(1, v[1], v[2])
    \/ \E r \in Reqs, p \in PrimaryResponses, f \in FallbackResponses :
         bitcoin_verify_balance(r, p, f)
    \/ Steps

Spec == Init /\ [][Next]_vars

\* Up to NumReq requests in flight, on one address, the clock free to be
\* set back.
NextConc ==
    \/ ClockStepBack
    \/ \E r \in Reqs, a \in ConcAddresses, n \in Nonces :
         bitcoin_challenge_begin(r, a, n)
    \/ \E r \in Reqs, a \in ConcAddresses, sig \in ConcSignatures :
         bitcoin_verify_begin(r, a, sig)
    \/ \E r \in Reqs, p \in PrimaryResponses, f \in FallbackResponses :
         bitcoin_verify_balance(r, p, f)
    \/ Steps

InitConc == InitIn(ConcEnvConfigs)

SpecConc == InitConc /\ [][NextConc]_vars

\* One request at a time on one address, the signature bypassed, over the
\* wide balance settings and service answers.
NextBalance ==
    \/ ClockStepBack
    \/ \E n \in Nonces : bitcoin_challenge_begin(1, A_P2PKH, n)
    \/ bitcoin_verify_begin(1, A_P2PKH, DummySig)
    \/ \E r \in Reqs, p \in BalancePrimaryResponses,
          f \in BalanceFallbackResponses :
         bitcoin_verify_balance(r, p, f)
    \/ Steps

InitBalance == InitIn(BalanceEnvConfigs)

SpecBalance == InitBalance /\ [][NextBalance]_vars

\* One request at a time, no bypass set, over every kind of address
\* the challenge handler lets through and every way a signature can fail:
\* not base64, 64 bytes, header bytes 26 and 35, bad (r, s), the wrong key,
\* the uncompressed key, and the address kinds the verifier refuses.
SigAddresses == {A_P2PKH, A_P2WPKH, A_P2SH, A_P2TR, A_TEST}
SigRequests ==
    LET own == Sign("K1", TRUE, ChallengeText(A_P2PKH, 1))
    IN  ({A_P2PKH} \X
           {DummySig, [own EXCEPT !.len = 64], [own EXCEPT !.header = 26],
            [own EXCEPT !.header = 35], [own EXCEPT !.rsok = FALSE], own,
            Sign("K1", FALSE, ChallengeText(A_P2PKH, 1)),
            Sign("K2", TRUE, ChallengeText(A_P2PKH, 1))})
          \cup ({A_P2WPKH} \X
                  {Sign("K1", TRUE, ChallengeText(A_P2WPKH, 1)),
                   Sign("K1", FALSE, ChallengeText(A_P2WPKH, 1))})
          \cup {<<a, Sign("K1", TRUE, ChallengeText(a, 1))>> :
                  a \in {A_P2SH, A_P2TR, A_TEST}}

NextSig ==
    \/ \E a \in SigAddresses : bitcoin_challenge_begin(1, a, 1)
    \/ \E v \in SigRequests : bitcoin_verify_begin(1, v[1], v[2])
    \/ \E r \in Reqs, p \in PrimaryResponses, f \in FallbackResponses :
         bitcoin_verify_balance(r, p, f)
    \/ Steps

InitSig == InitIn({Unset})

SpecSig == InitSig /\ [][NextSig]_vars

\* verify_bitcoin_message on its own: the call that was made returns.
verify_call ==
    /\ \E c \in verified :
         /\ c.result = "called"
         /\ verified' =
              {[c EXCEPT !.result =
                  verify_bitcoin_message(c.address, c.message, c.signature)]}
    /\ UNCHANGED <<authVars, now, rate_limiter, cfg, checks, history, repoVars, session>>

\* The signatures of the stand-alone calls: by K1 over the message, decoded
\* to 64, 65 or 66 bytes, with every header byte and with each of the four
\* recovery ids being the one that recovers K1; and signatures that are not
\* base64, have a bad (r, s), are by another key or over another message.
HeaderBytes == 0..255
VerifyMessage == ChallengeText(A_P2PKH, 1)
VerifyCallSignatures ==
    {[Sign("K1", TRUE, VerifyMessage) EXCEPT !.header = h, !.len = l,
                                             !.recid = i] :
       h \in HeaderBytes, l \in {64, 65, 66}, i \in 0..3}
      \cup {DummySig, [Sign("K1", TRUE, VerifyMessage) EXCEPT !.rsok = FALSE],
            Sign("K2", TRUE, VerifyMessage), Sign("K2", FALSE, VerifyMessage),
            Sign("K1", TRUE, ChallengeText(A_P2PKH, 2))}
VerifyCallAddresses ==
    {A_P2PKH, A_P2PKH_U, A_P2PKH_TEST, A_P2WPKH, A_TEST, A_P2SH, A_P2TR,
     A_JUNK}

NextVerify == verify_call

InitVerify ==
    /\ InitAuthIn({Unset})
    /\ \E a \in VerifyCallAddresses, sig \in VerifyCallSignatures :
         verified = {[address |-> a, message |-> VerifyMessage,
                      signature |-> sig, result |-> "called"]}
    /\ InitLimiter
    /\ InitRepo
    /\ session = {}

SpecVerify == InitVerify /\ [][NextVerify]_vars

\* ------------------------------------------------------------ rate limiter
\* Instant::duration_since: zero when `earlier` is the later instant.
duration_since(later, earlier) == IF later >= earlier THEN later - earlier ELSE 0

\* while let Some(front) = entry.front() { if now.duration_since(*front) >=
\* window { entry.pop_front(); } else { break; } }
RECURSIVE PopExpired(_, _, _)
PopExpired(entry, clock, window) ==
    IF entry # <<>> /\ duration_since(clock, Head(entry)) >= window
    THEN PopExpired(Tail(entry), clock, window)
    ELSE entry

\* self.store.entry(key).or_default()
EntryOrDefault(store, key) == IF key \in DOMAIN store THEN store[key] ELSE <<>>

RateKeys == {"thread:10.0.0.1", "reply:10.0.0.1"}

\* A call returns: it is appended to the calls that returned.
Returns(key, clock, result) ==
    Append(history, [key |-> key, start |-> clock, finish |-> now,
                     result |-> result])

\* check is called: a disabled limiter allows at once, an enabled one reads
\* the clock.
check_begin(t, key) ==
    /\ checks[t].pc = "idle"
    /\ Len(history) + Cardinality({u \in Callers : checks[u].pc # "idle"})
         < MaxChecks
    /\ IF ~rate_limiter.enabled
       THEN /\ history' = Returns(key, now, TRUE)
            /\ UNCHANGED checks
       ELSE /\ checks' = [checks EXCEPT ![t] =
                            [pc |-> "read", key |-> key, now |-> now]]
            /\ UNCHANGED history
    /\ UNCHANGED <<authVars, now, verified, rate_limiter, cfg, repoVars, session>>

\* Mutant of check_entry: the comparison with the limit lets one more in.
check_entry_one_more(t) ==
    /\ checks[t].pc = "read"
    /\ LET key == checks[t].key
           entry == PopExpired(EntryOrDefault(rate_limiter.store, key),
                               checks[t].now, cfg.window)
           allowed == Len(entry) <= cfg.limit
           after == IF allowed THEN Append(entry, checks[t].now) ELSE entry
       IN  /\ rate_limiter' =
                [rate_limiter EXCEPT !.store =
                   [k \in DOMAIN @ \cup {key} |-> IF k = key THEN after ELSE @[k]]]
           /\ history' = Returns(key, checks[t].now, allowed)
    /\ checks' = [checks EXCEPT ![t] = NoCheck]
    /\ UNCHANGED <<authVars, now, verified, cfg, repoVars, session>>

\* The entry of the key is taken (the shard is locked), the expired instants
\* are popped, the length is compared with the limit, the instant read
\* before is pushed when the call is allowed, and the call returns.
check_entry(t) ==
    /\ checks[t].pc = "read"
    /\ LET key == checks[t].key
           entry == PopExpired(EntryOrDefault(rate_limiter.store, key),
                               checks[t].now, cfg.window)
           allowed == Len(entry) < cfg.limit
           after == IF allowed THEN Append(entry, checks[t].now) ELSE entry
       IN  /\ rate_limiter' =
                [rate_limiter EXCEPT !.store =
                   [k \in DOMAIN @ \cup {key} |-> IF k = key THEN after ELSE @[k]]]
           /\ history' = Returns(key, checks[t].now, allowed)
    /\ checks' = [checks EXCEPT ![t] = NoCheck]
    /\ UNCHANGED <<authVars, now, verified, cfg, repoVars, session>>

\* The monotonic clock advances.
InstantTick ==
    /\ now < MaxTime
    /\ now' = now + 1
    /\ UNCHANGED <<authVars, others>>

\* The callers call check on two keys in any interleaving, with one limit
\* and one window for the behaviour, the limiter enabled or not.
NextLimiter ==
    \/ \E t \in Callers, key \in RateKeys : check_begin(t, key)
    \/ \E t \in Callers : check_entry(t)
    \/ InstantTick

InitLimited ==
    /\ InitAuthIn({Unset}) /\ now = 0
    /\ verified = {}
    /\ InitLimiterIn(BOOLEAN, {0, 1, 2}, {1, 2})
    /\ InitRepo
    /\ session = {}

SpecLimiter == InitLimited /\ [][NextLimiter]_vars

\* -------------------------------------------------- boards, threads, replies
\* The result of a repository call: whether it is Ok, the rows it returns and
\* the database it leaves.
RepoOk(rows, db) == [ok |-> TRUE, rows |-> rows, repo |-> db]
RepoNotFound == [ok |-> FALSE, rows |-> {}, repo |-> repo]

\* COALESCE(a, b) of SQL: a unless it is NULL.
COALESCE(a, b) == IF a # NULL THEN a ELSE b

\* The rows of a table as the queries return them: id and deleted_at.
Row(table, id) == [id |-> id, deleted_at |-> repo[table][id].deleted_at]

\* Mutant of PgRepo_soft_delete_board: the timestamp is always overwritten.
PgRepo_soft_delete_board_overwrite(id) ==
    IF id \in DOMAIN repo.boards
    THEN RepoOk({}, [repo EXCEPT !.boards[id].deleted_at = {now}])
    ELSE RepoNotFound

\* UPDATE boards SET deleted_at = COALESCE(deleted_at, now()) WHERE id=$1;
\* NotFound when no row is affected.
PgRepo_soft_delete_board(id) ==
    IF id \in DOMAIN repo.boards
    THEN RepoOk({}, [repo EXCEPT !.boards[id].deleted_at = COALESCE(@, {now})])
    ELSE RepoNotFound

\* UPDATE boards SET deleted_at = NULL WHERE id=$1
PgRepo_restore_board(id) ==
    IF id \in DOMAIN repo.boards
    THEN RepoOk({}, [repo EXCEPT !.boards[id].deleted_at = NULL])
    ELSE RepoNotFound

PgRepo_soft_delete_thread(id) ==
    IF id \in DOMAIN repo.threads
    THEN RepoOk({}, [repo EXCEPT !.threads[id].deleted_at = COALESCE(@, {now})])
    ELSE RepoNotFound

PgRepo_restore_thread(id) ==
    IF id \in DOMAIN repo.threads
    THEN RepoOk({}, [repo EXCEPT !.threads[id].deleted_at = NULL])
    ELSE RepoNotFound

PgRepo_soft_delete_reply(id) ==
    IF id \in DOMAIN repo.replies
    THEN RepoOk({}, [repo EXCEPT !.replies[id].deleted_at = COALESCE(@, {now})])
    ELSE RepoNotFound

PgRepo_restore_reply(id) ==
    IF id \in DOMAIN repo.replies
    THEN RepoOk({}, [repo EXCEPT !.replies[id].deleted_at = NULL])
    ELSE RepoNotFound

\* SELECT ... FROM boards [WHERE deleted_at IS NULL]
PgRepo_list_boards(include_deleted) ==
    RepoOk({Row("boards", b) : b \in
              {b \in DOMAIN repo.boards :
                 include_deleted \/ repo.boards[b].deleted_at = NULL}}, repo)

\* SELECT ... FROM boards WHERE id = $1
PgRepo_get_board(id) ==
    IF id \in DOMAIN repo.boards THEN RepoOk({Row("boards", id)}, repo)
    ELSE RepoNotFound

\* SELECT ... FROM threads t WHERE t.board_id = $1 [AND t.deleted_at IS NULL]
PgRepo_list_threads(board_id, include_deleted) ==
    RepoOk({Row("threads", t) : t \in
              {t \in DOMAIN repo.threads :
                 /\ repo.threads[t].board_id = board_id
                 /\ include_deleted \/ repo.threads[t].deleted_at = NULL}}, repo)

\* SELECT ... FROM threads t WHERE t.id = $1
PgRepo_get_thread(id) ==
    IF id \in DOMAIN repo.threads THEN RepoOk({Row("threads", id)}, repo)
    ELSE RepoNotFound

\* SELECT ... FROM replies r WHERE r.thread_id = $1 [AND r.deleted_at IS NULL]
PgRepo_list_replies(thread_id, include_deleted) ==
    RepoOk({Row("replies", r) : r \in
              {r \in DOMAIN repo.replies :
                 /\ repo.replies[r].thread_id = thread_id
                 /\ include_deleted \/ repo.replies[r].deleted_at = NULL}}, repo)

\* The callers: the roles of a token (Auth), and a request with or without
\* one (Option<Auth>: <<>> is None).
AuthClaims == {{r} : r \in Roles}
OptionAuth == {<<>>} \cup {<<a>> : a \in AuthClaims}

\* The query strings, in parts, and the ids the paths name (board, thread
\* and reply 1 exist, 2 do not).
QueryStrings == {<<>>, <<"include_deleted=true">>,
                 <<"page=2&", "include_deleted=1">>}
PathIds == {1, 2}

\* req.query_string().contains("include_deleted=1")
want_deleted(query) == \E i \in DOMAIN query : query[i] = "include_deleted=1"

\* auth.as_ref().map(|a| a.0.roles.iter().any(|r| matches!(r, Role::Admin)))
\*     .unwrap_or(false)
is_admin(auth) == auth # <<>> /\ "Admin" \in auth[1]

\* A handler answers: the request it served and its status and rows.
Answers(handler, auth, query, id, status, rows) ==
    /\ response' = {[handler |-> handler, auth |-> auth, query |-> query,
                     id |-> id, status |-> status, rows |-> rows]}
    /\ UNCHANGED <<authVars, now, verified, rate_limiter, cfg, checks, history,
                   session>>

\* ensure_admin!, ensure_moderator_or_admin!
ensure_admin(auth) == "Admin" \in auth
ensure_moderator_or_admin(auth) == auth \cap {"Moderator", "Admin"} # {}

\* A moderation handler: Forbidden without the role, else the repository
\* call, NotFound when it fails, else {"status":"ok"}.
Moderation(handler, permitted, res, auth, id) ==
    /\ repo' = IF permitted THEN res.repo ELSE repo
    /\ Answers(handler, <<auth>>, <<>>, id,
               IF ~permitted THEN 403 ELSE IF ~res.ok THEN 404 ELSE 200, {})

admin_soft_delete_board(auth, id) ==
    Moderation("admin_soft_delete_board", ensure_admin(auth),
               PgRepo_soft_delete_board(id), auth, id)
admin_restore_board(auth, id) ==
    Moderation("admin_restore_board", ensure_admin(auth),
               PgRepo_restore_board(id), auth, id)
admin_soft_delete_thread(auth, id) ==
    Moderation("admin_soft_delete_thread", ensure_moderator_or_admin(auth),
               PgRepo_soft_delete_thread(id), auth, id)
admin_restore_thread(auth, id) ==
    Moderation("admin_restore_thread", ensure_moderator_or_admin(auth),
               PgRepo_restore_thread(id), auth, id)
admin_soft_delete_reply(auth, id) ==
    Moderation("admin_soft_delete_reply", ensure_moderator_or_admin(auth),
               PgRepo_soft_delete_reply(id), auth, id)
admin_restore_reply(auth, id) ==
    Moderation("admin_restore_reply", ensure_moderator_or_admin(auth),
               PgRepo_restore_reply(id), auth, id)

\* GET /api/v1/boards
list_boards(auth, query) ==
    /\ Answers("list_boards", auth, query, 0, 200,
               PgRepo_list_boards(is_admin(auth) /\ want_deleted(query)).rows)
    /\ UNCHANGED repo

\* Mutant of list_threads: the board's deleted_at is not looked at.
list_threads_any_board(auth, query, board_id) ==
    /\ LET include == is_admin(auth) /\ want_deleted(query)
           board == PgRepo_get_board(board_id)
       IN  IF ~board.ok
           THEN Answers("list_threads", auth, query, board_id, 404, {})
           ELSE Answers("list_threads", auth, query, board_id, 200,
                        PgRepo_list_threads(board_id, include).rows)
    /\ UNCHANGED repo

\* GET /api/v1/boards/{id}/threads
list_threads(auth, query, board_id) ==
    /\ LET include == is_admin(auth) /\ want_deleted(query)
           board == PgRepo_get_board(board_id)
       IN  IF ~board.ok
           THEN Answers("list_threads", auth, query, board_id, 404, {})
           ELSE IF (\E b \in board.rows : b.deleted_at # NULL) /\ ~include
           THEN Answers("list_threads", auth, query, board_id, 404, {})
           ELSE Answers("list_threads", auth, query, board_id, 200,
                        PgRepo_list_threads(board_id, include).rows)
    /\ UNCHANGED repo

\* GET /api/v1/threads/{id}
get_thread(auth, query, id) ==
    /\ LET include == is_admin(auth) /\ want_deleted(query)
           th == PgRepo_get_thread(id)
       IN  IF ~th.ok
           THEN Answers("get_thread", auth, query, id, 404, {})
           ELSE IF (\E t \in th.rows : t.deleted_at # NULL) /\ ~include
           THEN Answers("get_thread", auth, query, id, 404, {})
           ELSE Answers("get_thread", auth, query, id, 200, th.rows)
    /\ UNCHANGED repo

\* GET /api/v1/threads/{id}/replies
list_replies(auth, query, thread_id) ==
    /\ LET include == is_admin(auth) /\ want_deleted(query)
           thread == PgRepo_get_thread(thread_id)
       IN  IF ~thread.ok
           THEN Answers("list_replies", auth, query, thread_id, 404, {})
           ELSE IF (\E t \in thread.rows : t.deleted_at # NULL) /\ ~include
           THEN Answers("list_replies", auth, query, thread_id, 404, {})
           ELSE Answers("list_replies", auth, query, thread_id, 200,
                        PgRepo_list_replies(thread_id, include).rows)
    /\ UNCHANGED repo

\* The database clock advances.
RepoTick ==
    /\ now < MaxTime
    /\ now' = now + 1
    /\ UNCHANGED <<authVars, others>>

\* Moderators and readers of every role, one request at a time, in any
\* order, while the clock advances.
NextRepo ==
    \/ \E auth \in AuthClaims, id \in PathIds : admin_soft_delete_board(auth, id)
    \/ \E auth \in AuthClaims, id \in PathIds : admin_restore_board(auth, id)
    \/ \E auth \in AuthClaims, id \in PathIds : admin_soft_delete_thread(auth, id)
    \/ \E auth \in AuthClaims, id \in PathIds : admin_restore_thread(auth, id)
    \/ \E auth \in AuthClaims, id \in PathIds : admin_soft_delete_reply(auth, id)
    \/ \E auth \in AuthClaims, id \in PathIds : admin_restore_reply(auth, id)
    \/ \E auth \in OptionAuth, query \in QueryStrings : list_boards(auth, query)
    \/ \E auth \in OptionAuth, query \in QueryStrings, id \in PathIds :
         list_threads(auth, query, id)
    \/ \E auth \in OptionAuth, query \in QueryStrings, id \in PathIds :
         get_thread(auth, query, id)
    \/ \E auth \in OptionAuth, query \in QueryStrings, id \in PathIds :
         list_replies(auth, query, id)
    \/ RepoTick

InitBoards ==
    /\ InitAuthIn({Unset}) /\ now = 0
    /\ verified = {}
    /\ InitLimiter
    /\ InitRepo
    /\ session = {}

SpecRepo == InitBoards /\ [][NextRepo]_vars

\* ------------------------------------------------- POST threads and replies
\* InMemoryRateLimiter::check as one call: whether it allows, and the
\* limiter it leaves.
InMemoryRateLimiter_check(limiter, key, limit, window) ==
    IF ~limiter.enabled THEN [allowed |-> TRUE, limiter |-> limiter]
    ELSE LET entry == PopExpired(EntryOrDefault(limiter.store, key), now, window)
             allowed == Len(entry) < limit
             after == IF allowed THEN Append(entry, now) ELSE entry
         IN  [allowed |-> allowed,
              limiter |-> [limiter EXCEPT !.store =
                             [k \in DOMAIN @ \cup {key} |->
                                IF k = key THEN after ELSE @[k]]]]

\* format!("thread:{ip}"), format!("reply:{ip}"): the action and the ip.
\* AppState.rate_limiter None is the limiter with enabled FALSE: no call is
\* denied and none recorded.
allow_thread(ip) ==
    InMemoryRateLimiter_check(rate_limiter, <<"thread", ip>>,
                              cfg.thread_limit, cfg.thread_window)
allow_reply(ip) ==
    InMemoryRateLimiter_check(rate_limiter, <<"reply", ip>>,
                              cfg.reply_limit, cfg.reply_window)

\* auth.0.roles.iter().any(|r| matches!(r, Role::User | Role::Moderator |
\* Role::Admin))
may_post(auth) == auth \cap {"User", "Moderator", "Admin"} # {}

\* INSERT INTO threads (board_id, ...) RETURNING id: the next id of the
\* sequence; NotFound when the board row is missing.
PgRepo_create_thread(board_id) ==
    IF board_id \in DOMAIN repo.boards
    THEN LET id == Cardinality(DOMAIN repo.threads) + 1
         IN  RepoOk({[id |-> id, deleted_at |-> NULL]},
                    [repo EXCEPT !.threads =
                       [t \in DOMAIN @ \cup {id} |->
                          IF t = id THEN [board_id |-> board_id,
                                          deleted_at |-> NULL]
                          ELSE @[t]]])
    ELSE RepoNotFound

\* INSERT INTO replies (thread_id, ...) RETURNING id
PgRepo_create_reply(thread_id) ==
    IF thread_id \in DOMAIN repo.threads
    THEN LET id == Cardinality(DOMAIN repo.replies) + 1
         IN  RepoOk({[id |-> id, deleted_at |-> NULL]},
                    [repo EXCEPT !.replies =
                       [r \in DOMAIN @ \cup {id} |->
                          IF r = id THEN [thread_id |-> thread_id,
                                          deleted_at |-> NULL]
                          ELSE @[r]]])
    ELSE RepoNotFound

\* The tokens of the posters (without a role, or a user's) and the client
\* ip extract_client_ip returns.
PostClaims == {{}, {"User"}}
ClientIps == {"10.0.0.1"}

\* A posting handler answers: its status and the repository calls it made.
Posted(handler, status, calls) ==
    /\ response' = {[handler |-> handler, status |-> status,
                     calls |-> calls]}
    /\ UNCHANGED <<authVars, now, verified, cfg, checks, history, session>>

\* Mutant of create_thread: the role and the board are checked before the
\* rate limit.
create_thread_checks_first(auth, ip, board_id) ==
    /\ Cardinality(DOMAIN repo.threads) <= MaxPosts
    /\ LET rl == allow_thread(ip)
           board == PgRepo_get_board(board_id)
           created == PgRepo_create_thread(board_id)
       IN  IF ~may_post(auth)
           THEN /\ UNCHANGED <<rate_limiter, repo>>
                /\ Posted("create_thread", 403, <<>>)
           ELSE IF ~board.ok \/ (\E b \in board.rows : b.deleted_at # NULL)
           THEN /\ UNCHANGED <<rate_limiter, repo>>
                /\ Posted("create_thread", 404,
                          <<"get_board">>)
           ELSE IF ~rl.allowed
           THEN /\ rate_limiter' = rl.limiter
                /\ UNCHANGED repo
                /\ Posted("create_thread", 429,
                          <<"get_board">>)
           ELSE /\ rate_limiter' = rl.limiter
                /\ repo' = created.repo
                /\ Posted("create_thread", IF created.ok THEN 201 ELSE 404,
                          <<"get_board", "create_thread">>)

\* POST /api/v1/threads
create_thread(auth, ip, board_id) ==
    /\ Cardinality(DOMAIN repo.threads) <= MaxPosts
    /\ LET rl == allow_thread(ip)
           board == PgRepo_get_board(board_id)
           created == PgRepo_create_thread(board_id)
       IN  /\ rate_limiter' = rl.limiter
           /\ IF ~rl.allowed
              THEN /\ UNCHANGED repo
                   /\ Posted("create_thread", 429, <<>>)
              ELSE IF ~may_post(auth)
              THEN /\ UNCHANGED repo
                   /\ Posted("create_thread", 403, <<>>)
              ELSE IF ~board.ok
              THEN /\ UNCHANGED repo
                   /\ Posted("create_thread", 404,
                             <<"get_board">>)
              ELSE IF \E b \in board.rows : b.deleted_at # NULL
              THEN /\ UNCHANGED repo
                   /\ Posted("create_thread", 404,
                             <<"get_board">>)
              ELSE /\ repo' = created.repo
                   /\ Posted("create_thread", IF created.ok THEN 201 ELSE 404,
                             <<"get_board", "create_thread">>)

\* POST /api/v1/replies
create_reply(auth, ip, thread_id) ==
    /\ Cardinality(DOMAIN repo.replies) <= MaxPosts
    /\ LET rl == allow_reply(ip)
           thread == PgRepo_get_thread(thread_id)
           created == PgRepo_create_reply(thread_id)
       IN  /\ rate_limiter' = rl.limiter
           /\ IF ~rl.allowed
              THEN /\ UNCHANGED repo
                   /\ Posted("create_reply", 429, <<>>)
              ELSE IF ~may_post(auth)
              THEN /\ UNCHANGED repo
                   /\ Posted("create_reply", 403, <<>>)
              ELSE IF ~thread.ok
              THEN /\ UNCHANGED repo
                   /\ Posted("create_reply", 404,
                             <<"get_thread">>)
              ELSE IF \E t \in thread.rows : t.deleted_at # NULL
              THEN /\ UNCHANGED repo
                   /\ Posted("create_reply", 404,
                             <<"get_thread">>)
              ELSE /\ repo' = created.repo
                   /\ Posted("create_reply", IF created.ok THEN 201 ELSE 404,
                             <<"get_thread", "create_reply">>)

\* Posters of every role, one request at a time, on targets that exist or
\* not, while the clock advances.
NextPost ==
    \/ \E auth \in PostClaims, ip \in ClientIps, id \in PathIds :
         create_thread(auth, ip, id)
    \/ \E auth \in PostClaims, ip \in ClientIps, id \in PathIds :
         create_reply(auth, ip, id)
    \/ InstantTick

\* RateLimiterFacade::new with the limiter on or off and small limits and
\* windows for threads and replies; the board and the thread are there,
\* soft-deleted (at instant 0) or not.
InitPost ==
    /\ InitAuthIn({Unset}) /\ now = 0
    /\ verified = {}
    /\ rate_limiter \in [enabled : BOOLEAN, store : {<<>>}]
    /\ cfg \in [thread_limit : {1, 2}, thread_window : {1},
                reply_limit : {1, 2}, reply_window : {2}]
    /\ checks = [t \in Callers |-> NoCheck]
    /\ history = <<>>
    /\ \E board_deleted_at, thread_deleted_at \in {NULL, {0}} :
         repo = [boards |-> [b \in BoardIds |->
                               [deleted_at |-> board_deleted_at]],
                 threads |-> [t \in DOMAIN ThreadBoard |->
                                [board_id |-> ThreadBoard[t],
                                 deleted_at |-> thread_deleted_at]],
                 replies |-> [r \in DOMAIN ReplyThread |->
                                [thread_id |-> ReplyThread[r],
                                 deleted_at |-> NULL]]]
    /\ response = {}
    /\ session = {}

SpecPost == InitPost /\ [][NextPost]_vars

\* ------------------------------------------------------------ /auth/refresh
\* The calls of create_jwt that issue tokens: discord_callback's, with every
\* id, username and role; create_bitcoin_jwt's, for every address; and with
\* a composite user_id and a username that is ignored.
IssueCalls ==
    {[user_id |-> <<id>>, username |-> u, roles |-> {r}] :
       id \in DiscordIds, u \in DiscordUsernames, r \in Roles}
      \cup {[user_id |-> <<"btc", a>>, username |-> <<a>>, roles |-> {r}] :
              a \in {A_P2PKH, A_P2WPKH}, r \in Roles}
      \cup {[user_id |-> <<"btc", "xyz">>, username |-> <<"ignored_username">>,
             roles |-> rs] : rs \in {{"Moderator"}, {"User", "Admin"}}}

\* The client posts its token to /auth/refresh and keeps the one returned.
refresh_call ==
    /\ \E s \in session :
         /\ s.refreshes < MaxRefresh
         /\ session' = {[s EXCEPT !.token = refresh_token(s.token),
                                  !.refreshes = @ + 1]}
    /\ UNCHANGED <<BTC_CHALLENGES, lock, now, env, requests, stored,
                   issuedTokens, superseded, fetched, verified, rate_limiter,
                   cfg, checks, history, repoVars>>

NextToken == refresh_call

InitToken ==
    /\ InitAuthIn({Unset}) /\ now = 0
    /\ verified = {}
    /\ InitLimiter
    /\ InitRepo
    /\ \E c \in IssueCalls :
         session = {[issue |-> c,
                     token |-> create_jwt(c.user_id, c.username, c.roles),
                     refreshes |-> 0]}

SpecToken == InitToken /\ [][NextToken]_vars

\* One request at a time, challenges asked for every kind of address string
\* and verified for the two supported ones and for one of them padded with
\* whitespace, no bypass set.
AddrVerifyRequests ==
    UNION {{<<a, DummySig>>, <<a, Sign("K1", TRUE, ChallengeText(a, 1))>>} :
             a \in {A_P2PKH, A_P2WPKH}}
      \cup {<<A_PADDED, Sign("K1", TRUE, ChallengeText(A_P2PKH, 1))>>}

NextAddr ==
    \/ \E a \in Addresses : bitcoin_challenge_begin(1, a, 1)
    \/ \E v \in AddrVerifyRequests : bitcoin_verify_begin(1, v[1], v[2])
    \/ \E r \in Reqs, p \in PrimaryResponses, f \in FallbackResponses :
         bitcoin_verify_balance(r, p, f)
    \/ Steps

InitAddr == InitIn({Unset})

SpecAddr == InitAddr /\ [][NextAddr]_vars

\* fetch_btc_balance_sats on its own: one call, with the override variable
\* and the answers of the two services as given.
fetch_call(override, primaryResp, fallbackResp) ==
    /\ \E overflow_checks \in BOOLEAN :
         fetched' =
           {[override |-> override, primaryResp |-> primaryResp,
             fallbackResp |-> fallbackResp,
             result |-> OverflowOutcome(
                          fetch_btc_balance_sats(override, primaryResp,
                                                 fallbackResp),
                          overflow_checks)]}
    /\ UNCHANGED <<BTC_CHALLENGES, lock, now, env, requests, stored,
                   issuedTokens, superseded, others>>

\* The override unset, set to a number and set to something else; the
\* primary service failing in each way and answering lists of outputs, one
\* of them with an output that has no value; the fallback likewise.
FetchOverrides == {{}, {"5000"}, {"lots"}}
FetchPrimaryResponses ==
    {NetErr, HttpFail, BadBody, JsonObject, Utxos(<<>>), Utxos(<<{4999}>>),
     Utxos(<<{500000}, {500000}>>), Utxos(<<{2500}, {}, {2500}>>),
     Utxos(<<{1}, {20}, {300}>>)}
FetchFallbackResponses ==
    {NetErr, HttpFail, BadBody, FinalBalance(0), FinalBalance(1000000)}

\* Lists of up to two outputs whose values range over the 64 bits: small
\* ones, half the modulus and above, the largest, and an output without a
\* value.
WideValues == {{}, {1}, {5000}, {U64Modulus \div 2}, {U64Modulus \div 2 + 1},
               {U64Modulus - 1}}
WideValueLists ==
    {<<>>} \cup {<<v>> : v \in WideValues}
           \cup {<<v, w>> : v \in WideValues, w \in WideValues}

NextSum ==
    \E vals \in WideValueLists, f \in FetchFallbackResponses :
       fetch_call({}, Utxos(vals), f)

InitSum == InitIn({Unset})

SpecSum == InitSum /\ [][NextSum]_vars

NextFetch ==
    \E ov \in FetchOverrides, p \in FetchPrimaryResponses,
       f \in FetchFallbackResponses : fetch_call(ov, p, f)

InitFetch == InitIn({Unset})

SpecFetch == InitFetch /\ [][NextFetch]_vars

\* Requests in flight together on two addresses, no bypass set.
LockAddresses == {A_P2PKH, A_P2WPKH}
LockRequests ==
    {<<A_P2PKH, Sign("K1", TRUE, ChallengeText(A_P2PKH, 1))>>,
     <<A_P2WPKH, DummySig>>}

NextLock ==
    \/ \E r \in Reqs, a \in LockAddresses : bitcoin_challenge_begin(r, a, 1)
    \/ \E r \in Reqs, v \in LockRequests : bitcoin_verify_begin(r, v[1], v[2])
    \/ \E r \in Reqs, p \in PrimaryResponses, f \in FallbackResponses :
         bitcoin_verify_balance(r, p, f)
    \/ Steps

InitLock == InitIn({Unset})

SpecLock == InitLock /\ [][NextLock]_vars

\* One request at a time on one address, which may be cancelled before any
\* of its steps.
CancelSignatures == {DummySig, Sign("K1", TRUE, ChallengeText(A_P2PKH, 1))}

NextCancel ==
    \/ \E n \in Nonces : bitcoin_challenge_begin(1, A_P2PKH, n)
    \/ \E sig \in CancelSignatures : bitcoin_verify_begin(1, A_P2PKH, sig)
    \/ \E r \in Reqs, p \in PrimaryResponses, f \in FallbackResponses :
         bitcoin_verify_balance(r, p, f)
    \/ \E r \in Reqs : bitcoin_verify_cancel(r)
    \/ Steps

InitCancel == InitIn(ConcEnvConfigs)

SpecCancel == InitCancel /\ [][NextCancel]_vars

\* ================================================================== claims
IsVerify(r) == requests[r].kind = "verify"
IsChallenge(r) == requests[r].kind = "challenge"
Moved(r) == requests'[r] # requests[r]
Pending(a) == a \in DOMAIN BTC_CHALLENGES
BadRequestResponse(req) ==
    req.pc = "done" /\ req.status = 400 /\ req.error = "bad request"
      /\ req.token = {}

\* The remove step of a verify request: its address is absent afterwards,
\* and when it was absent before, the request ends as BadRequest.
RemoveStepConsumes ==
    \A r \in Reqs :
      (IsVerify(r) /\ requests[r].pc = "locked" /\ Moved(r)) =>
        /\ ~Pending(requests[r].address)'
        /\ ~Pending(requests[r].address) =>
             /\ BadRequestResponse(requests'[r])
             /\ ~requests'[r].took

\* An absent address becomes pending again only by the insert step of a
\* challenge request for it.
ReappearsByChallengeOnly ==
    \A a \in Addresses :
      (~Pending(a) /\ Pending(a)') =>
        \E r \in Reqs :
          /\ IsChallenge(r) /\ requests[r].pc = "locked"
          /\ requests[r].address = a
          /\ requests'[r].pc = "done" /\ requests'[r].status = 200

\* C1: a challenge is single-use. Every verify attempt leaves its address
\* without a pending challenge, whatever its outcome; the address stays so
\* until a challenge request stores a new one; and a verify that finds no
\* pending challenge returns BadRequest (400), whatever its signature.
C1_SingleUse == [][RemoveStepConsumes /\ ReappearsByChallengeOnly]_vars

\* C1 witness: a verify answered 400 for want of a challenge, on an address
\* whose challenge an earlier verify had consumed.
C1_Witness ==
    \E r \in Reqs :
      /\ IsVerify(r) /\ BadRequestResponse(requests[r]) /\ ~requests[r].took
      /\ stored[requests[r].address] = 1
      /\ ~Pending(requests[r].address)

\* The verify requests that removed a challenge of address a and are still
\* in flight.
Holders(a) ==
    {r \in Reqs : /\ IsVerify(r) /\ requests[r].address = a
                  /\ requests[r].took /\ requests[r].pc # "done"}

\* C2: under every interleaving, each stored challenge is obtained by at most
\* one verify request: per address, the tokens issued, the requests in flight
\* that hold a removed challenge and the pending challenge together never
\* outnumber the challenges stored, so tokens never outnumber challenges; a
\* request that obtained none ends as BadRequest.
C2_AtMostOneObtains ==
    /\ \A a \in Addresses :
         issuedTokens[a] + Cardinality(Holders(a))
           + (IF Pending(a) THEN 1 ELSE 0) <= stored[a]
    /\ \A r \in Reqs :
         (IsVerify(r) /\ requests[r].pc = "done" /\ ~requests[r].took) =>
           BadRequestResponse(requests[r])

\* C2 witness: two verify requests for the one challenge stored for an
\* address; one holds it and is still in flight, the other got 400.
C2_Witness ==
    \E r, q \in Reqs :
      /\ r # q /\ IsVerify(r) /\ IsVerify(q)
      /\ requests[r].address = requests[q].address
      /\ stored[requests[r].address] = 1
      /\ requests[r].took /\ requests[r].pc \in {"ttl", "sig", "balance", "jwt"}
      /\ BadRequestResponse(requests[q]) /\ ~requests[q].took

\* A request at token creation, or answered with a token, has passed every
\* enabled check.
TokenImpliesChecks ==
    \A r \in Reqs :
      (IsVerify(r) /\ (requests[r].pc = "jwt" \/ requests[r].token # {})) =>
        /\ requests[r].took
        /\ ~requests[r].expired
        /\ requests[r].sigres \in {"ok", "skipped"}
        /\ requests[r].sigres = "skipped" => EnvFlag(env.skip_sig)
        /\ requests[r].balance = {} => EnvFlag(env.skip_balance)
        /\ \A b \in requests[r].balance :
             b.ok /\ b.sats >= MinBalance(env.min_balance)

\* What passing each step rests on: the entry removed in this request, its
\* age, and the signature verified over exactly its text.
ChecksAreReal ==
    \A r \in Reqs :
      IsVerify(r) =>
        /\ (requests[r].pc = "locked" /\ requests'[r].pc = "ttl") =>
             /\ requests'[r].taken = MapGet(BTC_CHALLENGES, requests[r].address)
             /\ requests'[r].taken # {}
             /\ ~Pending(requests[r].address)'
        /\ (requests[r].pc = "ttl" /\ requests'[r].pc = "sig") =>
             \A e \in requests[r].taken :
               now - e.issued <= BTC_CHALLENGE_TTL_SECS
        /\ (requests[r].pc = "sig" /\ requests'[r].pc = "balance") =>
             \/ EnvFlag(env.skip_sig)
             \/ \A e \in requests[r].taken :
                  verify_bitcoin_message(requests[r].address, e.text,
                                         requests[r].signature) = "ok"
        /\ (requests'[r].token # {} /\ requests'[r].token # requests[r].token) =>
             /\ requests[r].pc = "jwt"
             /\ requests'[r].pc = "done" /\ requests'[r].status = 200

\* C3: bitcoin_verify returns a token only if, in the same request, a pending
\* challenge of the request's address was removed, its age was within the
\* TTL, the signature verified over exactly the removed text (unless the
\* signature bypass is on) and the fetched balance was at least the minimum
\* (unless the balance bypass is on).
C3_TokenOnlyIfAllChecks == []TokenImpliesChecks /\ [][ChecksAreReal]_vars

\* C3 witness: a token returned with both checks enabled and passed.
C3_Witness ==
    \E r \in Reqs :
      /\ IsVerify(r) /\ requests[r].status = 200 /\ requests[r].token # {}
      /\ requests[r].sigres = "ok" /\ requests[r].balance # {}

\* Only a request that removed a challenge is answered 410, and a request
\* that found none is answered 400.
ExpiredOnlyAfterRemoval ==
    \A r \in Reqs :
      (IsVerify(r) /\ requests[r].pc = "done") =>
        /\ requests[r].status = 410 => requests[r].took /\ requests[r].expired
        /\ ~requests[r].took => BadRequestResponse(requests[r])

\* The expiry step answers 410 whenever the removed challenge is older than
\* the TTL; the removal before it left the address without a challenge.
ExpiryStep ==
    \A r \in Reqs :
      /\ (IsVerify(r) /\ requests[r].pc = "ttl" /\ Moved(r)) =>
           \A e \in requests[r].taken :
             now - e.issued > BTC_CHALLENGE_TTL_SECS =>
               /\ requests'[r].pc = "done" /\ requests'[r].status = 410
               /\ requests'[r].token = {}
      /\ (IsVerify(r) /\ requests[r].pc = "locked" /\ Moved(r)) =>
           /\ ~Pending(requests[r].address)'
           /\ ~Pending(requests[r].address) => requests'[r].status = 400

\* C4: a verify that removes a challenge older than the TTL (300 s) returns
\* 410 and the challenge is consumed by it; the next verify for the address,
\* with no new challenge, finds none and returns 400, never 410.
C4_ExpiredThenBadRequest == []ExpiredOnlyAfterRemoval /\ [][ExpiryStep]_vars

\* C4 witness: of two verify requests on the one challenge stored for an
\* address, the one that removed it got 410 and the other 400.
C4_Witness ==
    \E r, q \in Reqs :
      /\ r # q /\ IsVerify(r) /\ IsVerify(q)
      /\ requests[r].address = requests[q].address
      /\ stored[requests[r].address] = 1
      /\ requests[r].pc = "done" /\ requests[r].status = 410
      /\ BadRequestResponse(requests[q]) /\ ~requests[q].took

\* The verification order, step by step: each step passes when its
\* condition holds, and token creation ends in a token for "btc:<address>"
\* with the User role, or in 500.
VerifySequence ==
    \A r \in Reqs :
      (IsVerify(r) /\ Moved(r)) =>
        /\ (requests[r].pc = "locked" /\ Pending(requests[r].address)) =>
             requests'[r].pc = "ttl"
        /\ requests[r].pc = "ttl" =>
             ((\A e \in requests[r].taken :
                 now - e.issued <= BTC_CHALLENGE_TTL_SECS)
               => requests'[r].pc = "sig")
        /\ requests[r].pc = "sig" =>
             ((\/ EnvFlag(env.skip_sig)
               \/ \A e \in requests[r].taken :
                    verify_bitcoin_message(requests[r].address, e.text,
                                           requests[r].signature) = "ok")
               => requests'[r].pc = "balance")
        /\ requests[r].pc = "balance" =>
             /\ EnvFlag(env.skip_balance) =>
                  requests'[r].pc = "jwt" /\ requests'[r].balance = {}
             /\ (\E b \in requests'[r].balance :
                   b.ok /\ b.sats >= MinBalance(env.min_balance))
                  => requests'[r].pc = "jwt"
        /\ requests[r].pc = "jwt" =>
             /\ requests'[r].pc = "done"
             /\ \/ /\ requests'[r].status = 200
                   /\ requests'[r].token =
                        {[sub |-> <<"btc", requests[r].address>>,
                          roles |-> {"User"}]}
                \/ /\ requests'[r].status = 500
                   /\ requests'[r].error = "internal error"
                   /\ requests'[r].token = {}

\* C5: a verify whose address has a pending challenge within the TTL, whose
\* signature verifies (or the signature bypass is on) and whose balance is
\* sufficient (or the balance bypass is on) reaches token creation and is
\* answered with a token for "btc:<address>" with the User role unless
\* encoding fails (500); with both bypass flags on, any signature will do.
C5_ChecksPassedGivesToken == [][VerifySequence]_vars

\* C5 witness: both bypass flags on, and a token returned without a
\* signature verified or a balance fetched.
C5_Witness ==
    \E r \in Reqs :
      /\ IsVerify(r) /\ requests[r].status = 200
      /\ requests[r].token =
           {[sub |-> <<"btc", requests[r].address>>, roles |-> {"User"}]}
      /\ requests[r].sigres = "skipped" /\ requests[r].balance = {}
      /\ EnvFlag(env.skip_sig) /\ EnvFlag(env.skip_balance)

\* The signature verifies for address a over some challenge text of a.
ValidFor(sig, a) ==
    \E n \in Nonces : verify_bitcoin_message(a, ChallengeText(a, n), sig) = "ok"

\* At the signature step the removed text names the request's address, a
\* signature valid for another address does not verify, and one that does
\* verify signs this text with the key the address commits to.
BoundToAddress ==
    \A r \in Reqs :
      (IsVerify(r) /\ requests[r].pc = "sig") =>
        \A e \in requests[r].taken :
          LET res == verify_bitcoin_message(requests[r].address, e.text,
                                            requests[r].signature)
          IN  /\ e.text.address = requests[r].address
              /\ (\E a \in Addresses \ {requests[r].address} :
                    ValidFor(requests[r].signature, a)) => res # "ok"
              /\ res = "ok" =>
                   /\ requests[r].signature.msg = e.text
                   /\ \E p \in AddressFromStr(requests[r].address) :
                        p.hash = Hash160(requests[r].signature.key, TRUE)

\* With the bypass off, the signature step rejects a signature that is
\* valid for another address.
ForeignSignatureRejected ==
    \A r \in Reqs :
      (/\ IsVerify(r) /\ requests[r].pc = "sig" /\ Moved(r)
       /\ ~EnvFlag(env.skip_sig)
       /\ \E a \in Addresses \ {requests[r].address} :
            ValidFor(requests[r].signature, a))
        => BadRequestResponse(requests'[r])

\* C6: a challenge is bound to its address: the text embeds the address and
\* the signature must recover to that address over that text, so a signature
\* valid for address A does not pass a verify for address B; with the bypass
\* off such a verify is answered 400.
C6_BoundToAddress == []BoundToAddress /\ [][ForeignSignatureRejected]_vars

\* C6 witness: a verify for the segwit address answered 400 on a signature
\* that is valid for the legacy address of the same key.
C6_Witness ==
    \E r \in Reqs :
      /\ IsVerify(r) /\ BadRequestResponse(requests[r])
      /\ requests[r].address = A_P2WPKH
      /\ requests[r].took /\ requests[r].sigres = "address mismatch"
      /\ \E s \in requests[r].rejected : ValidFor(s, A_P2PKH)

\* C7: bitcoin_challenge answers BadRequest to, and stores no challenge for,
\* every address that is not a mainnet P2PKH or P2WPKH-v0 address, so no
\* signature is ever evaluated for such an address. Address::from_str
\* accepts every well-formed address, so this does not hold of the handler.
C7_UnsupportedRejectedAtChallenge ==
    /\ \A a \in DOMAIN BTC_CHALLENGES : Supported(a)
    /\ \A r \in Reqs :
         (IsChallenge(r) /\ requests[r].pc = "done"
            /\ ~Supported(requests[r].address))
           => BadRequestResponse(requests[r])
    /\ \A r \in Reqs :
         (IsVerify(r) /\ requests[r].sigres \notin {"", "skipped"})
           => Supported(requests[r].address)

\* C8: in every reachable state no token has been issued for an address
\* other than a mainnet P2PKH or P2WPKH-v0 address, for every signature and
\* every configuration. The challenge stored for such an address and the
\* signature bypass together issue one, so this does not hold either.
C8_NoTokenForUnsupported ==
    \A a \in Addresses : issuedTokens[a] > 0 => Supported(a)

\* The threshold configured by BTC_MIN_BALANCE_SATS, or the default.
ConfiguredMin ==
    IF env.min_balance = {"5000"} THEN 5000 ELSE BTC_MIN_BALANCE_SATS

\* C9: with the balance check enabled and the oracle answering balance b,
\* the balance step passes if and only if b >= min_balance, and otherwise
\* the request is answered InsufficientFunds (403); min_balance is the
\* configured threshold, or 1,000,000 sats by default.
C9_BalanceThreshold ==
    \A r \in Reqs :
      IsVerify(r) =>
        /\ \A b \in requests[r].balance :
             b.ok =>
               /\ b.sats >= ConfiguredMin <=>
                    \/ requests[r].pc = "jwt"
                    \/ requests[r].pc = "done" /\ requests[r].status \in {200, 500}
               /\ b.sats < ConfiguredMin <=>
                    /\ requests[r].pc = "done" /\ requests[r].status = 403
                    /\ requests[r].error = "insufficient funds"
        /\ (requests[r].pc = "done" /\ requests[r].status = 403) =>
             /\ ~EnvFlag(env.skip_balance)
             /\ \E b \in requests[r].balance : b.ok /\ b.sats < ConfiguredMin

\* C9 witness: a balance exactly at the default threshold passed the step.
C9_Witness ==
    \E r \in Reqs :
      /\ IsVerify(r) /\ requests[r].pc = "jwt" /\ env.min_balance = {}
      /\ \E b \in requests[r].balance : b.ok /\ b.sats = BTC_MIN_BALANCE_SATS

\* C9 witness of the other side: one satoshi below a configured threshold.
C9_BelowThreshold ==
    \E r \in Reqs :
      /\ IsVerify(r) /\ requests[r].status = 403 /\ env.min_balance = {"5000"}
      /\ \E b \in requests[r].balance : b.ok /\ b.sats = 4999

\* Every pending challenge is the one entry of its address and names it.
OnePendingPerAddress ==
    \A a \in DOMAIN BTC_CHALLENGES :
      /\ BTC_CHALLENGES[a].text.address = a
      /\ stored[a] > 0

\* Issuing replaces: after the insert step the entry of the address is the
\* text just issued, stamped now, and nothing else changed; a verify takes
\* the entry as it stands; with the bypass off the signature step passes
\* only a signature over the text taken.
LatestOnly ==
    \A r \in Reqs :
      /\ (IsChallenge(r) /\ requests[r].pc = "locked" /\ Moved(r)) =>
           LET a == requests[r].address
               latest == [text |-> ChallengeText(a, requests[r].nonce),
                          issued |-> now]
           IN  /\ BTC_CHALLENGES' =
                    [x \in DOMAIN BTC_CHALLENGES \cup {a} |->
                       IF x = a THEN latest ELSE BTC_CHALLENGES[x]]
               /\ requests'[r].challenge = {latest.text}
               /\ requests'[r].status = 200
      /\ (IsVerify(r) /\ requests[r].pc = "locked" /\ Moved(r)) =>
           requests'[r].taken = MapGet(BTC_CHALLENGES, requests[r].address)
      /\ (IsVerify(r) /\ requests[r].pc = "sig" /\ Moved(r)
            /\ ~EnvFlag(env.skip_sig)) =>
           \A e \in requests[r].taken :
             /\ requests'[r].pc = "balance" => requests[r].signature.msg = e.text
             /\ (requests[r].signature.msg \in superseded[requests[r].address]
                   /\ requests[r].signature.msg # e.text)
                  => BadRequestResponse(requests'[r])

\* C10: at most one challenge is pending per address: issuing one for an
\* address that has one replaces it, after which a signature over the
\* earlier text is rejected and only one over the latest text can verify.
C10_LatestChallengeOnly == []OnePendingPerAddress /\ [][LatestOnly]_vars

\* C10 witness: a signature by the address's own key over a replaced
\* challenge text was rejected with 400.
C10_Witness ==
    \E r \in Reqs :
      /\ IsVerify(r) /\ BadRequestResponse(requests[r]) /\ requests[r].took
      /\ requests[r].address = A_P2PKH
      /\ \E s \in requests[r].rejected :
           /\ s.msg \in superseded[A_P2PKH]
           /\ s = Sign("K1", TRUE, s.msg)

\* A challenge request for a valid address is never answered with an error.
ValidChallengeSucceeds ==
    \A r \in Reqs :
      (IsChallenge(r) /\ requests[r].pc = "done"
         /\ ChallengeAddressOk(requests[r].address))
        => /\ requests[r].status = 200
           /\ requests[r].challenge # {}

\* The insert step leaves a pending challenge issued now, whatever the
\* address had before; a verify that finds a challenge is not answered as
\* missing, and one that finds it issued at the present clock reading is
\* not answered as expired.
FreshAfterIssue ==
    \A r \in Reqs :
      /\ (IsChallenge(r) /\ requests[r].pc = "locked" /\ Moved(r)) =>
           /\ requests'[r].pc = "done" /\ requests'[r].status = 200
           /\ Pending(requests[r].address)'
           /\ BTC_CHALLENGES'[requests[r].address].issued = now
           /\ now' = now
           /\ requests'[r].challenge =
                {BTC_CHALLENGES'[requests[r].address].text}
      /\ (IsVerify(r) /\ requests[r].pc = "locked" /\ Moved(r)
            /\ Pending(requests[r].address)) =>
           /\ requests'[r].pc = "ttl"
           /\ requests'[r].taken = {BTC_CHALLENGES[requests[r].address]}
      /\ (IsVerify(r) /\ requests[r].pc = "ttl" /\ Moved(r)
            /\ \A e \in requests[r].taken : e.issued = now) =>
           requests'[r].pc = "sig"

\* C11: bitcoin_challenge for a valid address always succeeds and, whatever
\* the address had before (nothing, a pending challenge, one consumed by a
\* verify or expired), leaves a pending challenge issued at the present
\* time, so that a verify following at once is answered neither as missing
\* nor as expired.
C11_IssueAlwaysRefreshes == []ValidChallengeSucceeds /\ [][FreshAfterIssue]_vars

\* C11 witness: after the clock passed the TTL of everything issued at
\* first, a second challenge of an address whose first one was consumed
\* without a token took a verify past the missing and the expiry test.
C11_Witness ==
    \E r \in Reqs :
      /\ IsVerify(r) /\ requests[r].pc = "sig"
      /\ stored[requests[r].address] = 2
      /\ superseded[requests[r].address] = {}
      /\ issuedTokens[requests[r].address] = 0
      /\ now = BTC_CHALLENGE_TTL_SECS + 1
      /\ \A e \in requests[r].taken : e.issued = now

\* What the caller sees of a finished request: the status, the "error" field
\* of the body, the challenge or the token returned.
Response(req) ==
    [status |-> req.status, error |-> req.error, challenge |-> req.challenge,
     token |-> req.token]

\* The reasons verify_bitcoin_message fails with.
SignatureFailures ==
    {"base64 decode", "unexpected sig length (want 65)", "invalid header byte",
     "recovery failed", "address parse", "address mismatch",
     "unsupported witness program for signing",
     "segwit signature must use compressed key",
     "unsupported address type for signing", "wrong network"}

\* A finished verify that found no challenge, or whose signature failed.
Unverified(r) ==
    /\ IsVerify(r) /\ requests[r].pc = "done"
    /\ ~requests[r].took \/ requests[r].sigres \in SignatureFailures

\* C12: every failure of signature verification (not base64, a length other
\* than 65, a header byte out of range, bad (r, s) or failed recovery, address
\* mismatch, unsupported address type, wrong network) is answered with one
\* response, 400 with the body of BadRequest, the same as for a missing
\* challenge: any two such responses are equal, whichever step failed.
C12_OneFailureResponse ==
    /\ \A r \in Reqs :
         Unverified(r) =>
           Response(requests[r]) =
             [status |-> 400, error |-> "bad request", challenge |-> {},
              token |-> {}]
    /\ \A r, q \in Reqs :
         (Unverified(r) /\ Unverified(q)) =>
           Response(requests[r]) = Response(requests[q])
    /\ \A r \in Reqs :
         (IsVerify(r) /\ requests[r].sigres # "") =>
           requests[r].sigres \in SignatureFailures \cup {"ok", "skipped"}

\* C12 witness: a signature by the right key for a testnet address failed at
\* the last test of the verifier and was answered as a bad request.
C12_Witness ==
    \E r \in Reqs :
      /\ Unverified(r) /\ requests[r].took
      /\ requests[r].sigres = "wrong network"
      /\ requests[r].status = 400 /\ requests[r].error = "bad request"

\* The position of a step in bitcoin_verify.
Rank(pc) ==
    CASE pc = "locked" -> 1
      [] pc = "ttl" -> 2
      [] pc = "sig" -> 3
      [] pc = "balance" -> 4
      [] pc = "jwt" -> 5
      [] OTHER -> 6

\* A request moves to the next step or ends, and each failing step ends it
\* with its own answer, whatever the later steps would have found.
FixedOrder ==
    \A r \in Reqs :
      (IsVerify(r) /\ requests[r].pc # "done" /\ Moved(r)) =>
        LET req == requests[r]
            bad == \A e \in req.taken :
                     verify_bitcoin_message(req.address, e.text, req.signature)
                       # "ok"
        IN  /\ requests'[r].kind = "verify"
            /\ \/ Rank(requests'[r].pc) = Rank(req.pc) + 1
               \/ requests'[r].pc = "done"
            /\ (req.pc = "locked" /\ ~Pending(req.address)) =>
                 requests'[r].pc = "done" /\ requests'[r].status = 400
            /\ (req.pc = "ttl" /\ bad
                  /\ \E e \in req.taken : now - e.issued > BTC_CHALLENGE_TTL_SECS)
                 => /\ requests'[r].pc = "done" /\ requests'[r].status = 410
                    /\ requests'[r].sigres = ""
            /\ (req.pc = "sig" /\ bad /\ ~EnvFlag(env.skip_sig)) =>
                 /\ requests'[r].pc = "done" /\ requests'[r].status = 400
                 /\ requests'[r].balance = {}
            /\ requests'[r].balance # req.balance => req.pc = "balance"

\* The oracle was called only for a request that removed a challenge within
\* its TTL and passed the signature step; a request that failed before has
\* the answer of the step that failed.
OracleOnlyAfterSignature ==
    \A r \in Reqs :
      IsVerify(r) =>
        /\ requests[r].balance # {} =>
             /\ requests[r].took /\ ~requests[r].expired
             /\ requests[r].sigres \in {"ok", "skipped"}
        /\ requests[r].sigres # "" => requests[r].took /\ ~requests[r].expired
        /\ (requests[r].pc = "done" /\ ~requests[r].took) =>
             requests[r].status = 400
        /\ requests[r].expired =>
             requests[r].pc = "done" /\ requests[r].status = 410
        /\ requests[r].sigres \in SignatureFailures =>
             requests[r].pc = "done" /\ requests[r].status = 400

\* C13: within one bitcoin_verify the steps run in the order remove, TTL,
\* signature, balance, token; a failing step ends the request, so the oracle
\* is never called for a request whose challenge is missing or expired or
\* whose signature fails, and of several defects the earliest decides:
\* expired with a bad signature gives 410, a bad signature 400 whatever the
\* balance.
C13_FixedStepOrder == []OracleOnlyAfterSignature /\ [][FixedOrder]_vars

\* C13 witness: an expired challenge of a testnet address, for which no
\* signature verifies, was answered 410; neither the verifier nor the oracle
\* was reached.
C13_Witness ==
    \E r \in Reqs :
      /\ IsVerify(r) /\ requests[r].pc = "done" /\ requests[r].address = A_TEST
      /\ requests[r].status = 410 /\ requests[r].expired
      /\ requests[r].sigres = "" /\ requests[r].balance = {}

\* The mutex: at most one request is between lock() and the drop of the
\* guard, and `lock` names it.
MutualExclusion ==
    /\ Cardinality({r \in Reqs : requests[r].pc = "locked"}) <= 1
    /\ \A r \in Reqs : requests[r].pc = "locked" <=> lock = r

\* The map changes only in the one step of the request holding the mutex:
\* a whole entry goes in, or a whole entry comes out into `taken`.
AtomicMapSteps ==
    BTC_CHALLENGES' # BTC_CHALLENGES =>
      \E r \in Reqs :
        LET req == requests[r]
            a == req.address
        IN  /\ lock = r /\ req.pc = "locked" /\ lock' = 0
            /\ requests'[r].pc # "locked"
            /\ \A q \in Reqs \ {r} : requests'[q] = requests[q]
            /\ req.kind = "challenge" =>
                 BTC_CHALLENGES' =
                   [x \in DOMAIN BTC_CHALLENGES \cup {a} |->
                      IF x = a
                      THEN [text |-> ChallengeText(a, req.nonce), issued |-> now]
                      ELSE BTC_CHALLENGES[x]]
            /\ req.kind = "verify" =>
                 /\ Pending(a)
                 /\ BTC_CHALLENGES' =
                      [x \in DOMAIN BTC_CHALLENGES \ {a} |-> BTC_CHALLENGES[x]]
                 /\ requests'[r].taken = {BTC_CHALLENGES[a]}

\* A verify keeps the entry it removed, whatever other requests do, and its
\* expiry and signature tests are decided by that entry's time and text.
DecidedByRemovedEntry ==
    \A r \in Reqs :
      (IsVerify(r) /\ requests[r].pc \in {"ttl", "sig"}) =>
        LET req == requests[r] IN
        /\ ~Moved(r) \/ requests'[r].pc # req.pc
        /\ requests'[r].pc \in {"ttl", "sig"} => requests'[r].taken = req.taken
        /\ (req.pc = "ttl" /\ Moved(r)) =>
             \A e \in req.taken :
               (requests'[r].pc = "done" /\ requests'[r].status = 410)
                 <=> now - e.issued > BTC_CHALLENGE_TTL_SECS
        /\ (req.pc = "sig" /\ Moved(r) /\ ~EnvFlag(env.skip_sig)) =>
             \A e \in req.taken :
               requests'[r].pc = "balance"
                 <=> verify_bitcoin_message(req.address, e.text, req.signature)
                       = "ok"

\* C14: concurrent challenge and verify requests on one address are
\* linearizable: the map changes only by the atomic insert and remove steps
\* of the request holding the mutex, in the order of those steps; a verify
\* removes the older or the newer challenge as a whole, and tests the
\* signature and the TTL against the text and the issue time of the entry
\* it removed.
C14_Linearizable ==
    []MutualExclusion /\ [][AtomicMapSteps /\ DecidedByRemovedEntry]_vars

\* C14 witness: a verify is about to test the signature against the older
\* challenge it removed while a newer one, with another text, is pending.
C14_Witness ==
    \E r \in Reqs :
      /\ IsVerify(r) /\ requests[r].pc = "sig"
      /\ Pending(requests[r].address)
      /\ \A e \in requests[r].taken :
           e.text # BTC_CHALLENGES[requests[r].address].text

\* The steps of a verify after the removal.
AfterRemoval == {"ttl", "sig", "balance", "jwt"}

\* The mutex is held by a request between lock() and its map operation and
\* by no other; while none is there, a request for any address can take it.
LockOnlyAroundMap ==
    /\ \A r \in Reqs : lock = r => requests[r].pc = "locked"
    /\ \A r \in Reqs :
         (IsVerify(r) /\ requests[r].pc \in AfterRemoval) => lock # r
    /\ \A r, q \in Reqs :
         (/\ IsVerify(r) /\ requests[r].pc \in AfterRemoval
          /\ Free(q) /\ \A x \in Reqs : requests[x].pc # "locked")
           => \A a \in LockAddresses :
                ENABLED (\E x \in Reqs : bitcoin_verify_begin(x, a, DummySig))

\* The steps after the removal neither wait for the mutex nor touch it.
SlowStepsLockFree ==
    \A r \in Reqs :
      (IsVerify(r) /\ requests[r].pc \in AfterRemoval /\ Moved(r)) =>
        /\ lock' = lock
        /\ BTC_CHALLENGES' = BTC_CHALLENGES

\* C15: the mutex of the challenge map is held only for the insert of
\* bitcoin_challenge and the remove of bitcoin_verify, never while a
\* signature is verified, a balance fetched or a token made, so a slow
\* verification for one address does not keep requests for other addresses
\* from the map.
C15_LockOnlyAroundMap == []LockOnlyAroundMap /\ [][SlowStepsLockFree]_vars

\* C15 witness: while a verify for one address is at its signature or
\* balance step, a request for the other address holds the mutex.
C15_Witness ==
    \E r, q \in Reqs :
      /\ IsVerify(r) /\ requests[r].pc \in {"sig", "balance"}
      /\ requests[q].pc = "locked" /\ lock = q
      /\ requests[q].address # requests[r].address

Cancelled(r) == requests[r].kind = "cancelled"

\* The cancellation of a verify changes neither the map nor the counts and
\* leaves the mutex free; after the removal the address has no entry before
\* and after it, before the removal the map is as the request found it.
CancelForfeits ==
    \A r \in Reqs :
      (IsVerify(r) /\ Cancelled(r)') =>
        /\ BTC_CHALLENGES' = BTC_CHALLENGES
        /\ stored' = stored /\ issuedTokens' = issuedTokens
        /\ lock' = 0
        /\ requests'[r].token = {} /\ requests'[r].status = 0
        /\ requests[r].took =>
             ~Pending(requests[r].address) /\ ~Pending(requests[r].address)'
        /\ ~requests[r].took =>
             /\ requests[r].pc = "locked"
             /\ Pending(requests[r].address)' <=> Pending(requests[r].address)

\* While the cancelled request is the last one, the mutex is free and, if it
\* had removed the challenge, the address has none.
CancelledLeavesStoreConsistent ==
    \A r \in Reqs :
      Cancelled(r) =>
        /\ lock = 0
        /\ requests[r].took => ~Pending(requests[r].address)
        /\ issuedTokens[requests[r].address] + (IF requests[r].took THEN 1 ELSE 0)
             + (IF Pending(requests[r].address) THEN 1 ELSE 0)
             <= stored[requests[r].address]

\* C16: a bitcoin_verify cancelled at any point after it removed the
\* challenge leaves the store without an entry for the address and the mutex
\* free: the challenge is forfeited and nothing is rolled back; cancelled
\* before the removal, it leaves the challenge pending and unchanged.
C16_CancelForfeits ==
    []CancelledLeavesStoreConsistent /\ [][CancelForfeits]_vars

\* C16 witness: a verify cancelled after it removed the one challenge of its
\* address: no entry, no token, the mutex free.
C16_Witness ==
    \E r \in Reqs :
      /\ Cancelled(r) /\ requests[r].took
      /\ stored[requests[r].address] = 1
      /\ issuedTokens[requests[r].address] = 0
      /\ ~Pending(requests[r].address) /\ lock = 0

\* The other case: cancelled before the removal, the challenge still pending.
C16_CancelledBeforeRemoval ==
    \E r \in Reqs :
      /\ Cancelled(r) /\ ~requests[r].took
      /\ Pending(requests[r].address) /\ lock = 0

\* C17: with the balance check enabled, a failure of the balance oracle is
\* answered Internal (500) and a fetched balance below the minimum
\* InsufficientFunds (403); neither is answered for the other, and neither
\* as BadRequest.
C17_OracleFailureVsLowBalance ==
    \A r \in Reqs :
      IsVerify(r) =>
        /\ \A b \in requests[r].balance :
             /\ ~b.ok =>
                  /\ requests[r].pc = "done" /\ requests[r].status = 500
                  /\ requests[r].error = "internal error"
             /\ (b.ok /\ b.sats < ConfiguredMin) =>
                  /\ requests[r].pc = "done" /\ requests[r].status = 403
                  /\ requests[r].error = "insufficient funds"
             /\ requests[r].status # 400 /\ requests[r].error # "bad request"
        /\ (requests[r].pc = "done" /\ requests[r].status = 403) =>
             \E b \in requests[r].balance : b.ok /\ b.sats < ConfiguredMin
        /\ (requests[r].pc = "done" /\ requests[r].status = 500) =>
             /\ requests[r].error = "internal error"
             /\ \A b \in requests[r].balance : ~b.ok \/ b.sats >= ConfiguredMin

\* C17 witness: both services failed and the request was answered 500.
C17_Witness ==
    \E r \in Reqs :
      /\ IsVerify(r) /\ requests[r].pc = "done" /\ requests[r].status = 500
      /\ \E b \in requests[r].balance : ~b.ok /\ b.primary /\ b.fallback

\* ------------------------------------------------------------------- C18
\* A fetch that no parsable override short-cuts.
NoOverride(c) == UNION {ParseU64(v) : v \in c.override} = {}
PrimaryFailed(c) == ~(c.primaryResp.send /\ c.primaryResp.success)
FallbackGood(c) ==
    c.fallbackResp.send /\ c.fallbackResp.success /\ c.fallbackResp.parses
TimesCalled(c, service) ==
    Cardinality({i \in DOMAIN c.result.calls : c.result.calls[i] = service})

\* C18: without an override the fallback service is called only after the
\* primary call failed by a network error or a non-success status, and then
\* it is called; the fetch then returns the fallback's final_balance if the
\* fallback succeeds and an error if it fails; each service is called at
\* most once in a fetch, and the result of a fetch is that of its own calls,
\* whatever an earlier fetch returned.
C18_FallbackOnlyAfterPrimaryFailed ==
    \A c \in fetched :
      NoOverride(c) =>
        /\ c.result.fallback <=> PrimaryFailed(c)
        /\ c.result.fallback => c.result.calls = <<"primary", "fallback">>
        /\ PrimaryFailed(c) =>
             /\ FallbackGood(c) =>
                  /\ c.result.ok
                  /\ c.result.sats = c.fallbackResp.final_balance
             /\ ~FallbackGood(c) => ~c.result.ok
        /\ TimesCalled(c, "primary") <= 1
        /\ TimesCalled(c, "fallback") <= 1

\* The primary answers 500 and the fallback a balance, which is returned.
C18_Witness ==
    \E c \in fetched :
      /\ c.override = {} /\ c.primaryResp = HttpFail
      /\ c.fallbackResp = FinalBalance(1000000)
      /\ c.result.ok /\ c.result.sats = 1000000
      /\ c.result.calls = <<"primary", "fallback">>

\* ------------------------------------------------------------------- C19
\* C19: fetch_btc_balance_sats returns an error only when both the primary
\* and the fallback service were tried and neither produced a balance.
C19_ErrorOnlyAfterBothTried ==
    \A c \in fetched :
      ~c.result.ok =>
        /\ c.result.primary /\ c.result.fallback
        /\ ~FallbackGood(c)

\* ------------------------------------------------------------------- C20
\* The sum of the value fields of a list of outputs, taken over its indices.
ValueOf(vals) ==
    [i \in DOMAIN vals |-> IF vals[i] = {} THEN 0
                           ELSE CHOOSE v \in vals[i] : TRUE]
ValueTotal(vals) == SumOver(ValueOf(vals), DOMAIN vals)

C21_OverrideSkipsNetwork ==
    \A c \in fetched :
      \A v \in c.override :
        \A n \in ParseU64(v) :
          /\ c.result.ok /\ c.result.sats = n
          /\ c.result.calls = <<>>
          /\ ~c.result.primary /\ ~c.result.fallback

\* The override is 5000 while both services would have answered a million.
C21_Witness ==
    \E c \in fetched :
      /\ c.override = {"5000"}
      /\ c.primaryResp = Utxos(<<{500000}, {500000}>>)
      /\ c.fallbackResp = FinalBalance(1000000)
      /\ c.result.ok /\ c.result.sats = 5000 /\ c.result.calls = <<>>

\* ------------------------------------------------------------------- C22
\* C22: the signature bypass, the balance bypass and the balance override
\* are not taken from the environment of the process, so that in a process
\* whose environment is all the configuration there is no verify request
\* whose signature check was skipped, none that reached the token without a
\* balance fetched, and no balance that came from the override.
C22_BypassUnreachable ==
    \A r \in Reqs :
      IsVerify(r) =>
        /\ requests[r].sigres # "skipped"
        /\ (requests[r].pc = "jwt" \/ requests[r].token # {}) =>
             requests[r].balance # {}
        /\ \A b \in requests[r].balance : b.calls # <<>>

\* ------------------------------------------------------------------- C23
\* The subjects of the tokens discord_callback issues.
DiscordSubjects ==
    {discord_callback(id, name, role).sub :
       id \in DiscordIds, name \in DiscordUsernames, role \in Roles}

\* C23: every token bitcoin_verify issues has the subject "btc:" followed
\* by the address of the request and exactly the User role, and its subject
\* is not the subject of a token issued for a Discord identity.
C23_BitcoinSubjectNamespaced ==
    \A r \in Reqs :
      IsVerify(r) =>
        \A t \in requests[r].token :
          /\ t.sub = <<"btc", requests[r].payload>>
          /\ t.roles = {"User"}
          /\ t.sub \notin DiscordSubjects

\* A token issued for A_P2PKH while a Discord user is named "btc:" and the
\* address.
C23_Witness ==
    \E r \in Reqs :
      /\ IsVerify(r) /\ requests[r].status = 200
      /\ requests[r].payload = A_P2PKH
      /\ requests[r].token = {[sub |-> <<"btc", A_P2PKH>>, roles |-> {"User"}]}
      /\ <<"42", "btc", A_P2PKH>> \in DiscordSubjects

\* ------------------------------------------------------------------- C24
\* The address of the request, trimmed, is empty or out of the length bound.
OutOfBounds(payload) ==
    \/ Trim(payload) = A_EMPTY
    \/ AddrLen(Trim(payload)) < 26
    \/ AddrLen(Trim(payload)) > 100

RejectedAsBadRequest ==
    \A r \in Reqs :
      (IsChallenge(r) /\ OutOfBounds(requests[r].payload)) =>
        /\ BadRequestResponse(requests[r])
        /\ requests[r].challenge = {}

StoreLeftAlone ==
    \A r \in Reqs :
      (Moved(r) /\ requests'[r].kind = "challenge"
         /\ OutOfBounds(requests'[r].payload)) =>
        /\ BTC_CHALLENGES' = BTC_CHALLENGES
        /\ stored' = stored

HeaderTable ==
    [h \in 27..34 |->
       CASE h = 27 -> [recovery_id |-> 0, compressed |-> FALSE]
         [] h = 28 -> [recovery_id |-> 1, compressed |-> FALSE]
         [] h = 29 -> [recovery_id |-> 2, compressed |-> FALSE]
         [] h = 30 -> [recovery_id |-> 3, compressed |-> FALSE]
         [] h = 31 -> [recovery_id |-> 0, compressed |-> TRUE]
         [] h = 32 -> [recovery_id |-> 1, compressed |-> TRUE]
         [] h = 33 -> [recovery_id |-> 2, compressed |-> TRUE]
         [] h = 34 -> [recovery_id |-> 3, compressed |-> TRUE]]

\* The stand-alone calls of verify_bitcoin_message that have returned.
Returned == {c \in verified : c.result # "called"}

\* The signature of the call is by K1 over the message of the call.
ByK1(c) ==
    /\ c.signature.b64 /\ c.signature.rsok
    /\ c.signature.key = "K1" /\ c.signature.msg = c.message

\* C25: for every header byte h in 0..255 of a decoded signature,
\* verify_bitcoin_message goes on to the recovery only if the decoded length
\* is 65 and 27 <= h <= 34, and then with recovery_id = (h - 27) & 3 and
\* compressed = ((h - 27) & 4) != 0; every other length or header byte is a
\* failure. Seen from outside: a signature by K1 verifies for the P2PKH
\* address of compressed (uncompressed) K1 exactly when its length is 65 and
\* its header stands for the recovery id that recovers K1 and for
\* compressed (uncompressed).
C25_HeaderByte ==
    \A c \in Returned :
      LET sig == c.signature IN
      /\ (sig.b64 /\ sig.len # 65) =>
           c.result = "unexpected sig length (want 65)"
      /\ (sig.b64 /\ sig.len = 65 /\ sig.header \notin 27..34) =>
           c.result = "invalid header byte"
      /\ (sig.b64 /\ sig.len = 65 /\ sig.header \in 27..34) =>
           c.result \notin {"unexpected sig length (want 65)",
                            "invalid header byte", "base64 decode"}
      /\ c.result = "ok" => sig.len = 65 /\ sig.header \in 27..34
      /\ (ByK1(c) /\ c.address \in {A_P2PKH, A_P2PKH_U}) =>
           (c.result = "ok" <=>
              /\ sig.len = 65 /\ sig.header \in 27..34
              /\ HeaderTable[sig.header].recovery_id = sig.recid
              /\ HeaderTable[sig.header].compressed = (c.address = A_P2PKH))

\* Header 30 (recovery id 3, uncompressed) verifies for the address of the
\* uncompressed key.
C25_Witness ==
    \E c \in verified :
      /\ c.address = A_P2PKH_U /\ ByK1(c)
      /\ c.signature.header = 30 /\ c.signature.recid = 3
      /\ c.signature.len = 65 /\ c.result = "ok"

\* ------------------------------------------------------------------- C26
\* The key the recovery yields for a signature that reaches it: the signing
\* key when the message and the recovery id are those of the signature,
\* else some other key.
RecoveredKey(c) ==
    IF /\ c.signature.msg = c.message
       /\ HeaderTable[c.signature.header].recovery_id = c.signature.recid
    THEN c.signature.key ELSE "junk"

\* What a successful call rests on, by the kind of its address.
SucceedsOnlyIfKeyMatches ==
    \A c \in Returned :
      c.result = "ok" =>
        /\ c.signature.len = 65 /\ c.signature.header \in 27..34
        /\ \E p \in AddressFromStr(c.address) :
             LET compressed == HeaderTable[c.signature.header].compressed IN
             /\ p.network = "Bitcoin"
             /\ p.payload \in {"PubkeyHash", "WitnessProgram"}
             /\ p.payload = "WitnessProgram" =>
                  /\ p.version = 0 /\ p.proglen = 20
                  /\ compressed
                  /\ p.hash = Hash160(RecoveredKey(c), TRUE)
             /\ p.payload = "PubkeyHash" =>
                  p.hash = Hash160(RecoveredKey(c), compressed)

\* The other direction: with all of that, the call succeeds.
KeyMatchSucceeds ==
    \A c \in Returned :
      (/\ c.signature.b64 /\ c.signature.rsok
       /\ c.signature.len = 65 /\ c.signature.header \in 27..34
       /\ \E p \in AddressFromStr(c.address) :
            /\ p.network = "Bitcoin"
            /\ \/ /\ p.payload = "WitnessProgram" /\ p.version = 0
                  /\ p.proglen = 20
                  /\ HeaderTable[c.signature.header].compressed
                  /\ p.hash = Hash160(RecoveredKey(c), TRUE)
               \/ /\ p.payload = "PubkeyHash"
                  /\ p.hash = Hash160(RecoveredKey(c),
                                      HeaderTable[c.signature.header].compressed))
        => c.result = "ok"

\* C26: for a P2WPKH-v0 address verify_bitcoin_message succeeds only if the
\* compressed flag is set and HASH160 of the compressed recovered key is the
\* 20-byte witness program; for a P2PKH address only if HASH160 of the
\* recovered key, serialised as the compressed flag selects, is the address
\* hash; in both cases only if the address is a mainnet address.
C26_KeyHashMatchesAddress == SucceedsOnlyIfKeyMatches /\ KeyMatchSucceeds

\* A compressed-key signature verifies for the P2WPKH address of K1, and
\* the same signature was refused for the testnet address of K1.
C26_Witness ==
    \E c \in Returned :
      /\ c.address = A_P2WPKH /\ ByK1(c)
      /\ c.signature.header = 32 /\ c.signature.recid = 1
      /\ c.result = "ok"
      /\ verify_bitcoin_message(A_TEST, c.message, c.signature)
           = "wrong network"
      /\ verify_bitcoin_message(A_P2WPKH, c.message,
                                [c.signature EXCEPT !.header = 28])
           = "segwit signature must use compressed key"

\* ------------------------------------------------------------------- C27
\* The entry of address a is removed or changed in this step.
Touched(a) ==
    Pending(a) /\ (~Pending(a)' \/ BTC_CHALLENGES'[a] # BTC_CHALLENGES[a])

\* Only the remove step of a verify for the address and the insert step of
\* a challenge for the address touch its entry.
OnlyOwnRequestsTouch ==
    \A a \in Addresses :
      Touched(a) =>
        \E r \in Reqs :
          /\ requests[r].pc = "locked" /\ Moved(r) /\ lock = r
          /\ requests[r].address = a
          /\ \/ IsVerify(r) /\ ~Pending(a)'
             \/ IsChallenge(r) /\ Pending(a)'

\* The clock moving leaves the whole map as it is.
TimeLeavesStore == now' # now => BTC_CHALLENGES' = BTC_CHALLENGES

\* C27: a pending challenge stays in the store, unchanged, until the remove
\* step of a bitcoin_verify for its address or the insert step of a new
\* challenge for its address; the passage of time, also past the TTL, and
\* requests on other addresses never remove or change it.
C27_NoBackgroundEviction ==
    [][OnlyOwnRequestsTouch /\ TimeLeavesStore]_vars

\* The challenge of A_P2PKH is still pending past its TTL, after a verify
\* on A_P2WPKH consumed the challenge of that address.
C27_Witness ==
    /\ Pending(A_P2PKH)
    /\ now - BTC_CHALLENGES[A_P2PKH].issued > BTC_CHALLENGE_TTL_SECS
    /\ ~Pending(A_P2WPKH) /\ stored[A_P2WPKH] = 1
    /\ \E r \in Reqs :
         /\ IsVerify(r) /\ requests[r].address = A_P2WPKH
         /\ requests[r].took /\ requests[r].pc = "done"

\* ------------------------------------------------------------------- C28
\* The calls of check on a key that returned, in the order of their return,
\* and the positions in the history of those that returned true.
KeyCalls(key) == SelectSeq(history, LAMBDA c : c.key = key)
Allowed(key) ==
    {i \in DOMAIN history : history[i].key = key /\ history[i].result}

\* Every call of the set, from its start to its return, lies in one
\* interval shorter than the window.
WithinWindow(S) ==
    \A i, j \in S : history[j].finish - history[i].start < cfg.window

AtMostLimitPerWindow ==
    \A key \in RateKeys :
      \A S \in SUBSET Allowed(key) :
        WithinWindow(S) => Cardinality(S) <= cfg.limit

FirstLimitThenDenied ==
    \A key \in RateKeys :
      LET calls == KeyCalls(key) IN
      /\ \A i \in DOMAIN calls : i <= cfg.limit => calls[i].result
      /\ (/\ Len(calls) > cfg.limit
          /\ \A i \in 1..(cfg.limit + 1) :
               calls[cfg.limit + 1].finish - calls[i].start < cfg.window)
           => ~calls[cfg.limit + 1].result

\* C28: for an enabled InMemoryRateLimiter and any key, limit and window,
\* in every interleaving of calls: of the calls of check on the key that lie
\* in one interval shorter than the window at most `limit` return true; and
\* from an empty key the first `limit` calls return true and the next one
\* within the window returns false.
C28_SlidingWindowLimit ==
    rate_limiter.enabled => AtMostLimitPerWindow /\ FirstLimitThenDenied

\* With limit 1 a call was allowed on one key, the next call, which had read
\* the clock before the first one did, was refused within the window, and a
\* call after the window was allowed again.
C28_Witness ==
    /\ rate_limiter.enabled /\ cfg.limit = 1 /\ cfg.window = 1
    /\ \E key \in RateKeys :
         LET calls == KeyCalls(key) IN
         /\ Len(calls) = 3
         /\ calls[1].result
         /\ ~calls[2].result /\ calls[2].start < calls[1].start
         /\ calls[2].finish - calls[1].start < cfg.window
         /\ calls[3].result /\ calls[3].start - calls[1].start >= cfg.window

\* C29: soft delete is idempotent. A soft delete, by a caller whose role lets
\* them, of a board, thread or reply that is already soft-deleted returns
\* success and leaves the deleted_at set by the first soft delete.
SoftDeleteTable ==
    [admin_soft_delete_board |-> "boards", admin_soft_delete_thread |-> "threads",
     admin_soft_delete_reply |-> "replies"]
MayModerate(rsp) ==
    IF rsp.handler \in {"admin_soft_delete_board", "admin_restore_board"}
    THEN "Admin" \in rsp.auth[1]
    ELSE rsp.auth[1] \cap {"Moderator", "Admin"} # {}
SecondSoftDeleteKeeps(rsp) ==
    LET table == SoftDeleteTable[rsp.handler]
    IN  (/\ MayModerate(rsp)
         /\ rsp.id \in DOMAIN repo[table]
         /\ repo[table][rsp.id].deleted_at # NULL)
          => /\ rsp.status = 200
             /\ repo'[table][rsp.id].deleted_at = repo[table][rsp.id].deleted_at
C29_SoftDeleteIdempotent ==
    [][\A rsp \in response' :
         rsp.handler \in DOMAIN SoftDeleteTable => SecondSoftDeleteKeeps(rsp)]_vars

\* The board was soft-deleted at 0, the thread at 1, and the last request,
\* served after that, is a soft delete of the board that succeeded.
C29_Witness ==
    /\ repo.boards[1].deleted_at = {0}
    /\ repo.threads[1].deleted_at = {1}
    /\ \E rsp \in response :
         rsp.handler = "admin_soft_delete_board" /\ rsp.id = 1 /\ rsp.status = 200

\* C30: visibility after soft deletes and restores. As stated: whatever soft
\* deletes and restores were made, a list or get handler returns a board,
\* thread or reply of the request exactly when its deleted_at is null or the
\* caller is an admin asking include_deleted=1.
ReadHandlers == {"list_boards", "list_threads", "get_thread", "list_replies"}
Entities(rsp) ==
    CASE rsp.handler = "list_boards" -> {<<"boards", b>> : b \in DOMAIN repo.boards}
      [] rsp.handler = "list_threads" ->
           {<<"threads", t>> : t \in {t \in DOMAIN repo.threads :
                                        repo.threads[t].board_id = rsp.id}}
      [] rsp.handler = "get_thread" ->
           {<<"threads", t>> : t \in DOMAIN repo.threads \cap {rsp.id}}
      [] rsp.handler = "list_replies" ->
           {<<"replies", r>> : r \in {r \in DOMAIN repo.replies :
                                        repo.replies[r].thread_id = rsp.id}}
IsReturned(rsp, e) == rsp.status = 200 /\ \E row \in rsp.rows : row.id = e[2]
NotDeleted(e) == repo[e[1]][e[2]].deleted_at = NULL
AdminAsking(rsp) == is_admin(rsp.auth) /\ want_deleted(rsp.query)
C30_VisibleIffOwnDeletedAtNull ==
    \A rsp \in response :
      rsp.handler \in ReadHandlers =>
        \A e \in Entities(rsp) :
          IsReturned(rsp, e) <=> (NotDeleted(e) \/ AdminAsking(rsp))

\* C30 as amended: list_boards and get_thread return the entity exactly when
\* its deleted_at is null or the caller is an admin asking include_deleted=1;
\* list_threads and list_replies return it exactly when the caller is such an
\* admin or the deleted_at of the entity and of the board or thread listed
\* are both null. A successful soft delete leaves deleted_at set, a
\* successful restore leaves it null.
Listed(rsp) ==
    CASE rsp.handler = "list_threads" -> {<<"boards", rsp.id>>}
      [] rsp.handler = "list_replies" -> {<<"threads", rsp.id>>}
      [] OTHER -> {}
VisibleIffNoneDeleted ==
    \A rsp \in response :
      rsp.handler \in ReadHandlers =>
        \A e \in Entities(rsp) :
          IsReturned(rsp, e) <=>
            \/ AdminAsking(rsp)
            \/ NotDeleted(e) /\ \A parent \in Listed(rsp) : NotDeleted(parent)
RestoreTable ==
    [admin_restore_board |-> "boards", admin_restore_thread |-> "threads",
     admin_restore_reply |-> "replies"]
SetsAndClears ==
    \A rsp \in response' :
      /\ (rsp.handler \in DOMAIN SoftDeleteTable /\ rsp.status = 200)
           => repo'[SoftDeleteTable[rsp.handler]][rsp.id].deleted_at # NULL
      /\ (rsp.handler \in DOMAIN RestoreTable /\ rsp.status = 200)
           => repo'[RestoreTable[rsp.handler]][rsp.id].deleted_at = NULL
C30_VisibleIffNoneDeleted == []VisibleIffNoneDeleted /\ [][SetsAndClears]_vars

\* A caller who is no admin lists the threads of the soft-deleted board: the
\* thread, whose own deleted_at is null, is not returned.
C30_Witness ==
    /\ repo.boards[1].deleted_at # NULL
    /\ repo.threads[1].deleted_at = NULL
    /\ \E rsp \in response :
         /\ rsp.handler = "list_threads" /\ rsp.id = 1
         /\ ~is_admin(rsp.auth)
         /\ ~IsReturned(rsp, <<"threads", 1>>)

\* C31: create_jwt keeps a user_id with a colon as the subject and makes the
\* subject user_id:username otherwise; a token refreshed any number of times
\* has the subject and the roles it was issued with, and a btc:<address>
\* subject stays btc:<address>.
ContainsColon(str) == Len(str) > 1
IssuedSubject(c) ==
    IF ContainsColon(c.user_id) THEN c.user_id ELSE c.user_id \o c.username
C31_RefreshPreservesSubject ==
    \A s \in session :
      /\ s.token.sub = IssuedSubject(s.issue)
      /\ s.token.roles = s.issue.roles
      /\ s.issue.user_id = <<"btc", A_P2PKH>> => s.token.sub = <<"btc", A_P2PKH>>

\* A btc:<address> token, and a Discord token whose username has a colon,
\* refreshed twice.
C31_Witness ==
    \E s \in session :
      /\ s.refreshes >= 2
      /\ s.token.sub \in {<<"btc", A_P2PKH>>, <<"42", "btc", A_P2PKH>>}

\* C32: the expiry test is strict and is made by bitcoin_verify after the
\* removal, never by the store. The removal hands over a pending challenge
\* whatever its age; a challenge taken at an age of exactly the TTL passes
\* the test, and the answer is 410 exactly when the age is above the TTL.
RemovalIgnoresAge ==
    \A r \in Reqs :
      (IsVerify(r) /\ requests[r].pc = "locked" /\ Moved(r)
         /\ Pending(requests[r].address)) =>
        /\ requests'[r].pc = "ttl"
        /\ requests'[r].taken = {BTC_CHALLENGES[requests[r].address]}
        /\ ~Pending(requests[r].address)'
StrictAfterRemoval ==
    \A r \in Reqs :
      (IsVerify(r) /\ requests[r].pc = "ttl" /\ Moved(r)) =>
        \A e \in requests[r].taken :
          /\ ~Pending(requests[r].address) \/ BTC_CHALLENGES[requests[r].address] # e
          /\ now - e.issued = BTC_CHALLENGE_TTL_SECS => requests'[r].pc = "sig"
          /\ now - e.issued > BTC_CHALLENGE_TTL_SECS <=>
               (requests'[r].pc = "done" /\ requests'[r].status = 410
                  /\ requests'[r].expired)
C32_ExpiryStrictAfterRemoval == [][RemovalIgnoresAge /\ StrictAfterRemoval]_vars

\* A verify passed the expiry test with a challenge exactly 300 seconds old.
C32_Witness ==
    \E r \in Reqs :
      /\ IsVerify(r) /\ requests[r].pc = "sig"
      /\ \E e \in requests[r].taken : now - e.issued = BTC_CHALLENGE_TTL_SECS

\* C38: when the system clock at the expiry test reads earlier than the
\* issue time of the removed challenge, the age is taken as zero: the
\* challenge is not expired and the request goes on to the signature.
C38_ClockBehindIssueNotExpired ==
    [][\A r \in Reqs :
         (IsVerify(r) /\ requests[r].pc = "ttl" /\ Moved(r)) =>
           \A e \in requests[r].taken :
             now < e.issued =>
               /\ Elapsed(e.issued, now) = 0
               /\ requests'[r].pc = "sig"
               /\ ~requests'[r].expired]_vars

\* A verify passed the expiry test with the clock set back by more than the
\* TTL since its challenge was issued.
C38_Witness ==
    \E r \in Reqs :
      /\ IsVerify(r) /\ requests[r].pc = "sig"
      /\ \E e \in requests[r].taken :
           e.issued - now > BTC_CHALLENGE_TTL_SECS

\* C33: a check that returns false records nothing, and for a limit of at
\* least one, a check made once the window has elapsed since the oldest
\* instant recorded for its key returns true.
Enters(t) == checks[t].pc = "read" /\ checks'[t].pc = "idle"
Recorded(key) == EntryOrDefault(rate_limiter.store, key)
Oldest(key) ==
    CHOOSE x \in {Recorded(key)[i] : i \in DOMAIN Recorded(key)} :
      \A j \in DOMAIN Recorded(key) : x <= Recorded(key)[j]
IsSuffix(s1, s2) ==
    \E n \in 0..Len(s2) : s1 = SubSeq(s2, n + 1, Len(s2))
DeniedRecordsNothing(t) ==
    ~history'[Len(history')].result =>
      IsSuffix(rate_limiter'.store[checks[t].key], Recorded(checks[t].key))
AllowedOnceWindowElapsed(t) ==
    (/\ cfg.limit >= 1
     /\ Recorded(checks[t].key) # <<>>
     /\ checks[t].now - Oldest(checks[t].key) >= cfg.window)
      => history'[Len(history')].result
C33_DeniedDoesNotProlong ==
    [][\A t \in Callers :
         Enters(t) => DeniedRecordsNothing(t) /\ AllowedOnceWindowElapsed(t)]_vars

\* C34: a step of bitcoin_verify for an address leaves the pending challenge
\* of every other address as it is, and the steps of a bitcoin_verify for an
\* address with no pending challenge leave the whole store as it is.
VerifyStep(r) == requests'[r].kind = "verify" /\ Moved(r)
C34_VerifyTouchesOwnAddressOnly ==
    [][\A r \in Reqs :
         VerifyStep(r) =>
           /\ \A b \in Addresses \ {requests'[r].address} :
                MapGet(BTC_CHALLENGES', b) = MapGet(BTC_CHALLENGES, b)
           /\ ~Pending(requests'[r].address) =>
                BTC_CHALLENGES' = BTC_CHALLENGES]_vars

\* A verify took the challenge of one address while the other address has
\* its challenge pending.
C34_Witness ==
    /\ Pending(A_P2WPKH)
    /\ \E r \in Reqs :
         /\ IsVerify(r) /\ requests[r].address = A_P2PKH
         /\ requests[r].took

\* C35: bitcoin_challenge stores the challenge under the trimmed address and
\* bitcoin_verify looks it up under the address as given: every key of the
\* store is a trimmed address, and a verify whose address differs from a
\* pending key only by surrounding whitespace answers BadRequest and leaves
\* the store as it is.
KeysAreTrimmed == \A k \in DOMAIN BTC_CHALLENGES : Trim(k) = k
StoresUnderTrimmed ==
    \A r \in Reqs :
      (IsChallenge(r) /\ requests[r].pc = "locked" /\ Moved(r)) =>
        DOMAIN BTC_CHALLENGES' =
          DOMAIN BTC_CHALLENGES \cup {Trim(requests[r].payload)}
PaddedVerifyMisses ==
    \A r \in Reqs :
      (/\ IsVerify(r) /\ requests[r].pc = "locked" /\ Moved(r)
       /\ Trim(requests[r].payload) # requests[r].payload
       /\ Pending(Trim(requests[r].payload))) =>
        /\ BadRequestResponse(requests'[r])
        /\ BTC_CHALLENGES' = BTC_CHALLENGES
C35_VerifyLooksUpUntrimmed ==
    []KeysAreTrimmed /\ [][StoresUnderTrimmed /\ PaddedVerifyMisses]_vars

\* A verify for the padded address was answered 400 while the challenge of
\* the trimmed address, asked for under the padded one, is pending.
C35_Witness ==
    /\ Pending(A_P2PKH)
    /\ stored[A_P2PKH] > 0
    /\ \E r \in Reqs :
         /\ IsVerify(r) /\ requests[r].payload = A_PADDED
         /\ BadRequestResponse(requests[r])

\* C36: when the primary endpoint answers with a success status the
\* fallback service is not called, whatever the body: JSON that is not an
\* array gives balance 0, an array entry without an unsigned-integer value
\* adds 0, and a body that is not JSON makes the fetch fail.
PrimarySucceeded(c) ==
    NoOverride(c) /\ c.primaryResp.send /\ c.primaryResp.success
WithoutAbsent(vals) == SelectSeq(vals, LAMBDA v : v # {})
C36_PrimarySuccessNeverFallsBack ==
    \A c \in fetched :
      PrimarySucceeded(c) =>
        /\ TimesCalled(c, "fallback") = 0
        /\ ~c.primaryResp.json => ~c.result.ok
        /\ (c.primaryResp.json /\ ~c.primaryResp.array) =>
             c.result.ok /\ c.result.sats = 0
        /\ (c.primaryResp.json /\ c.primaryResp.array) =>
             /\ c.result.ok
             /\ c.result.sats = ValueTotal(WithoutAbsent(c.primaryResp.values))

\* The primary service answered a body that is not JSON and the fetch failed
\* though the fallback service would have answered a balance.
C36_Witness ==
    \E c \in fetched :
      /\ PrimarySucceeded(c) /\ ~c.primaryResp.json
      /\ FallbackGood(c)
      /\ ~c.result.ok /\ ~c.result.fallback

\* C37: the total returned for a primary list of outputs is the exact sum of
\* the value fields, never a wrapped one: no addition to the 64-bit total
\* overflows, whatever the 64-bit values of the outputs.
C37_TotalIsExactSum ==
    \A c \in fetched :
      (PrimarySucceeded(c) /\ c.primaryResp.json /\ c.primaryResp.array) =>
        /\ ~c.result.overflow
        /\ c.result.ok
        /\ c.result.sats = ValueTotal(c.primaryResp.values)

\* C39: in create_thread and create_reply the rate limit is checked first.
\* With the limiter on, a request answered 403 or 404 was allowed by the
\* limiter and its instant is pushed on the caller's deque although the
\* repository is left as it was; a request whose deque is full is answered
\* 429 whatever its role and target, makes no repository call, changes
\* nothing in the repository and records no instant.
PostOutcome(key, status, calls, limit, window) ==
    LET before == PopExpired(Recorded(key), now, window)
        after == EntryOrDefault(rate_limiter'.store, key)
    IN  /\ status \in {403, 404} /\ rate_limiter.enabled
             => /\ Len(before) < limit
                /\ after = Append(before, now)
                /\ repo' = repo
        /\ rate_limiter.enabled /\ Len(before) >= limit => status = 429
        /\ status = 429
             => /\ rate_limiter.enabled /\ Len(before) >= limit
                /\ calls = <<>>
                /\ repo' = repo
                /\ after = before
RateLimitFirst ==
    /\ \A auth \in PostClaims, ip \in ClientIps, id \in PathIds :
         create_thread(auth, ip, id)
           => \A r \in response' :
                PostOutcome(<<"thread", ip>>, r.status, r.calls,
                            cfg.thread_limit, cfg.thread_window)
    /\ \A auth \in PostClaims, ip \in ClientIps, id \in PathIds :
         create_reply(auth, ip, id)
           => \A r \in response' :
                PostOutcome(<<"reply", ip>>, r.status, r.calls,
                            cfg.reply_limit, cfg.reply_window)
C39_RateLimitBeforeRoleAndTarget == [][RateLimitFirst]_vars

\* A create_thread answered 429 although no thread was ever created: the
\* slot was taken by a request that was answered 403 or 404.
C39_Witness ==
    \E r \in response :
       /\ r.handler = "create_thread"
       /\ r.status = 429
       /\ DOMAIN repo.threads = DOMAIN ThreadBoard

====
